---- MODULE Spec2Model ----
(***************************************************************************)
(* Library Enrichment & Synchronization Service (Tools/turathMCP):         *)
(* the MCP tool server that mediates between the remote catalog API and    *)
(* the local SQLite cache (tables books, authors, cats).                   *)
(*                                                                         *)
(* Python values are modelled as tagged records [kind, v]; a dict is an    *)
(* insertion-ordered sequence of entries [k, val]; a str produced by       *)
(* json.dumps is the sequence of its JSON tokens.                          *)
(***************************************************************************)
EXTENDS Integers, Sequences, FiniteSets, TLC

\* ---------------------------------------------------------------- bounds
NumProcs == 2
NumBooks == 2

Procs == 1..NumProcs
SeedBookIds == 1..NumBooks
\* the last id is a book the remote catalog knows and the local store lacks
RequestBookIds == 1..(NumBooks + 1)

\* ---------------------------------------------------------- Python values
Null == [kind |-> "null", v |-> <<>>]
Str(s) == [kind |-> "str", v |-> s]
Num(n) == [kind |-> "num", v |-> n]
List(q) == [kind |-> "list", v |-> q]
Obj(entries) == [kind |-> "obj", v |-> entries]
Text(toks) == [kind |-> "text", v |-> toks]
\* a str given character by character, and a str built by an f-string or by
\* concatenation, given fragment by fragment
Chars(q) == [kind |-> "chars", v |-> q]
Fmt(frags) == [kind |-> "fmt", v |-> frags]

Entry(key, value) == [k |-> key, val |-> value]
EmptyDict == <<>>
Keys(d) == {d[i].k : i \in DOMAIN d}
Has(d, key) == key \in Keys(d)
Get(d, key) == IF Has(d, key) THEN d[CHOOSE i \in DOMAIN d : d[i].k = key].val ELSE Null
\* (d is bound once, so that nested assignments are evaluated once each)
Put(dict, key, value) ==
    CHOOSE out \in
       {IF Has(d, key)
        THEN [i \in DOMAIN d |-> IF d[i].k = key THEN Entry(key, value) ELSE d[i]]
        ELSE Append(d, Entry(key, value)) : d \in {dict}} : TRUE

IsDict(x) == x.kind = "obj"
ObjGet(x, key) == Get(x.v, key)

\* (variant of Truthy: only None is falsy)
TruthyNotNone(x) == x.kind # "null"
Truthy(x) ==
    CASE x.kind = "null" -> FALSE
      [] x.kind = "str" -> x.v # ""
      [] x.kind = "num" -> x.v # 0
      [] x.kind = "list" -> Len(x.v) > 0
      [] x.kind = "obj" -> Len(x.v) > 0
      [] x.kind = "text" -> Len(x.v) > 0
      [] x.kind = "chars" -> Len(x.v) > 0
      [] x.kind = "fmt" -> Len(x.v) > 0
      [] OTHER -> FALSE

\* ------------------------------------------------------------ json.dumps
Punct(c) == [tk |-> "punct", x |-> c, n |-> 0]
Quoted(s) == [tk |-> "string", x |-> s, n |-> 0]
Number(k) == [tk |-> "number", x |-> "", n |-> k]

RECURSIVE JsonTokens(_)
RECURSIVE JsonItems(_, _)
RECURSIVE JsonMembers(_, _)
JsonItems(q, i) ==
    IF i > Len(q) THEN <<>>
    ELSE (IF i > 1 THEN <<Punct(",")>> ELSE <<>>) \o JsonTokens(q[i]) \o JsonItems(q, i + 1)
JsonMembers(d, i) ==
    IF i > Len(d) THEN <<>>
    ELSE (IF i > 1 THEN <<Punct(",")>> ELSE <<>>)
         \o <<Quoted(d[i].k), Punct(":")>> \o JsonTokens(d[i].val) \o JsonMembers(d, i + 1)
JsonTokens(x) ==
    CASE x.kind = "null" -> <<Punct("null")>>
      [] x.kind = "str" -> <<Quoted(x.v)>>
      [] x.kind = "num" -> <<Number(x.v)>>
      [] x.kind = "list" -> <<Punct("[")>> \o JsonItems(x.v, 1) \o <<Punct("]")>>
      [] x.kind = "obj" -> <<Punct("{")>> \o JsonMembers(x.v, 1) \o <<Punct("}")>>

JsonDumps(x) == Text(JsonTokens(x))

\* ------------------------------------------------------------ json.loads
\* a text that is no JSON document raises json.JSONDecodeError (ok = FALSE)
ParseFail == [ok |-> FALSE, val |-> Null, next |-> 0]
TokAt(toks, i) == IF i >= 1 /\ i <= Len(toks) THEN toks[i] ELSE Punct("<eof>")

RECURSIVE ParseValue(_, _)
RECURSIVE ParseItems(_, _, _)
RECURSIVE ParseMembers(_, _, _)
ParseItems(toks, i, acc) ==
    IF TokAt(toks, i) = Punct("]") /\ acc = <<>>
    THEN [ok |-> TRUE, val |-> List(acc), next |-> i + 1]
    ELSE CHOOSE out \in
            {IF ~r.ok THEN ParseFail
             ELSE IF TokAt(toks, r.next) = Punct(",")
                  THEN ParseItems(toks, r.next + 1, Append(acc, r.val))
             ELSE IF TokAt(toks, r.next) = Punct("]")
                  THEN [ok |-> TRUE, val |-> List(Append(acc, r.val)), next |-> r.next + 1]
             ELSE ParseFail : r \in {ParseValue(toks, i)}} : TRUE
ParseMembers(toks, i, acc) ==
    IF TokAt(toks, i) = Punct("}") /\ acc = <<>>
    THEN [ok |-> TRUE, val |-> Obj(acc), next |-> i + 1]
    ELSE IF TokAt(toks, i).tk # "string" \/ TokAt(toks, i + 1) # Punct(":") THEN ParseFail
    ELSE CHOOSE out \in
            {IF ~r.ok THEN ParseFail
             ELSE IF TokAt(toks, r.next) = Punct(",")
                  THEN ParseMembers(toks, r.next + 1, Put(acc, toks[i].x, r.val))
             ELSE IF TokAt(toks, r.next) = Punct("}")
                  THEN [ok |-> TRUE, val |-> Obj(Put(acc, toks[i].x, r.val)),
                        next |-> r.next + 1]
             ELSE ParseFail : r \in {ParseValue(toks, i + 2)}} : TRUE
ParseValue(toks, i) ==
    LET t == TokAt(toks, i) IN
    CASE t = Punct("null") -> [ok |-> TRUE, val |-> Null, next |-> i + 1]
      [] t.tk = "string" -> [ok |-> TRUE, val |-> Str(t.x), next |-> i + 1]
      [] t.tk = "number" -> [ok |-> TRUE, val |-> Num(t.n), next |-> i + 1]
      [] t = Punct("[") -> ParseItems(toks, i + 1, <<>>)
      [] t = Punct("{") -> ParseMembers(toks, i + 1, <<>>)
      [] OTHER -> ParseFail

JsonLoads(text) ==
    CHOOSE out \in
       {IF r.ok /\ r.next = Len(text.v) + 1 THEN [ok |-> TRUE, val |-> r.val]
        ELSE [ok |-> FALSE, val |-> Null] : r \in {ParseValue(text.v, 1)}} : TRUE

\* ------------------------------------------------- remote catalog payloads
PdfLinks(files, root) ==
    Obj(<<Entry("files", List([i \in DOMAIN files |-> Str(files[i])])), Entry("root", Str(root))>>)
PdfA == PdfLinks(<<"a.pdf">>, "r")
PdfB == PdfLinks(<<"a.pdf", "b.pdf">>, "r")
PdfOld == PdfLinks(<<"old.pdf">>, "old")
PdfNoFiles == PdfLinks(<<>>, "r")
PdfNoRoot == PdfLinks(<<"a.pdf">>, "")

\* meta objects a /book response may carry
MetaWithPdf(pl) == Obj(<<Entry("cat_id", Num(1)), Entry("pdf_links", pl)>>)
MetaNoPdf == Obj(<<Entry("cat_id", Num(1))>>)
MetaValues ==
    {MetaWithPdf(PdfA), MetaWithPdf(PdfB), MetaWithPdf(PdfNoFiles),
     MetaWithPdf(PdfNoRoot), MetaWithPdf(Str("n/a")), MetaNoPdf}
\* the metas drawn when several requests run at once
FewMetaValues == {MetaWithPdf(PdfA), MetaNoPdf}

\* the JSON objects GET /book?id=b may answer with: with or without a meta key
BookPayloads(b, metas) ==
    {<<Entry("id", Num(b)), Entry("name", Str("remote name"))>>}
    \cup {<<Entry("id", Num(b)), Entry("name", Str("remote name")), Entry("meta", m)>> :
             m \in metas}

\* another answer without a meta key
BookPayloadRenamed(b) == <<Entry("id", Num(b)), Entry("name", Str("other name"))>>

\* ------------------------------------------------------------ local store
VARIABLES books, authors, cats

\* the seeded rows: one with a blob and no author or category, one with an
\* author and a category, one whose author and category ids match no row
BookRow(b) ==
    [name |-> Str("local book"),
     author_id |-> CASE b % 3 = 1 -> Null [] b % 3 = 2 -> Num(1) [] OTHER -> Num(2),
     cat_id |-> CASE b % 3 = 1 -> Null [] b % 3 = 2 -> Num(1) [] OTHER -> Num(2),
     pdf_links |-> IF b % 3 = 1 THEN JsonDumps(PdfOld) ELSE Null,
     has_pdf |-> IF b % 3 = 1 THEN Num(1) ELSE Num(0),
     info_long |-> Str("local info"),
     printed |-> Str("printed"),
     size |-> Num(5)]
SeedBooks == [b \in SeedBookIds |-> BookRow(b)]
\* rows whose author_id or cat_id is 0: odd ids have author_id 0 and a
\* category, even ids an author and cat_id 0
ZeroKeyBooks ==
    [b \in SeedBookIds |->
        [BookRow(b) EXCEPT !.author_id = IF b % 2 = 1 THEN Num(0) ELSE Num(1),
                           !.cat_id = IF b % 2 = 1 THEN Num(1) ELSE Num(0)]]
SeedAuthors == [a \in {1} |-> [name |-> Chars(<<"g", "h", "a", "z", "a", "l", "i">>),
                               death |-> Num(505), death_inexact_label |-> Null]]
SeedCats == [c \in {1, 3} |->
                [name |-> IF c = 1 THEN Chars(<<"t", "a", "f", "s", "i", "r">>)
                          ELSE Chars(<<"f", "i", "q", "h">>)]]

SqlUpdatePdf == "UPDATE books SET pdf_links = ?, has_pdf = 1 WHERE id = ?"
SqlClearPdf == "UPDATE books SET pdf_links = NULL, has_pdf = 0 WHERE id = ?"
SqlSelectBook ==
    "SELECT name, author_id, cat_id, pdf_links, info_long, printed, size FROM books WHERE id = ?"
SqlSelectAuthor == "SELECT name, death FROM authors WHERE id = ?"
SqlSelectCat == "SELECT name FROM cats WHERE id = ?"
SqlSelectAuthorBio == "SELECT name, death, death_inexact_label FROM authors WHERE id = ?"
SqlLikeCats == "SELECT id FROM cats WHERE name LIKE ?"
SqlLikeAuthors == "SELECT id FROM authors WHERE name LIKE ?"
SqlListCats == "SELECT id, name FROM cats ORDER BY name ASC"
SqlListAuthors == "SELECT id, name, death, death_inexact_label FROM authors ORDER BY name ASC"
SqlSelectJoin ==
    "SELECT b.name, a.name, c.name, b.pdf_links, b.info_long FROM books b LEFT JOIN authors a ON b.author_id = a.id LEFT JOIN cats c ON b.cat_id = c.id WHERE b.id = ?"

Statement(sql, params) == [sql |-> sql, params |-> params]

\* (variants of ExecuteBooks: an UPDATE that leaves the old blob in place, one
\* whose effect depends on the row's prior flag, one with no WHERE clause)
ExecuteBooksKeepsBlob(stmt, bks) ==
    CASE stmt.sql = SqlUpdatePdf ->
           [b \in DOMAIN bks |->
               IF b = stmt.params[2].v
               THEN [bks[b] EXCEPT !.pdf_links = stmt.params[1], !.has_pdf = Num(1)]
               ELSE bks[b]]
      [] stmt.sql = SqlClearPdf ->
           [b \in DOMAIN bks |->
               IF b = stmt.params[1].v THEN [bks[b] EXCEPT !.has_pdf = Num(0)] ELSE bks[b]]
      [] OTHER -> bks
ExecuteBooksToggles(stmt, bks) ==
    CASE stmt.sql = SqlUpdatePdf ->
           [b \in DOMAIN bks |->
               IF b = stmt.params[2].v
               THEN IF bks[b].has_pdf = Num(1)
                    THEN [bks[b] EXCEPT !.pdf_links = Null, !.has_pdf = Num(0)]
                    ELSE [bks[b] EXCEPT !.pdf_links = stmt.params[1], !.has_pdf = Num(1)]
               ELSE bks[b]]
      [] stmt.sql = SqlClearPdf ->
           [b \in DOMAIN bks |->
               IF b = stmt.params[1].v
               THEN [bks[b] EXCEPT !.pdf_links = Null, !.has_pdf = Num(0)]
               ELSE bks[b]]
      [] OTHER -> bks
ExecuteBooksEveryRow(stmt, bks) ==
    CASE stmt.sql = SqlUpdatePdf ->
           [b \in DOMAIN bks |->
               [bks[b] EXCEPT !.pdf_links = stmt.params[1], !.has_pdf = Num(1)]]
      [] stmt.sql = SqlClearPdf ->
           [b \in DOMAIN bks |-> [bks[b] EXCEPT !.pdf_links = Null, !.has_pdf = Num(0)]]
      [] OTHER -> bks

\* what cursor.execute + conn.commit leave in table books
ExecuteBooks(stmt, bks) ==
    CASE stmt.sql = SqlUpdatePdf ->
           [b \in DOMAIN bks |->
               IF b = stmt.params[2].v
               THEN [bks[b] EXCEPT !.pdf_links = stmt.params[1], !.has_pdf = Num(1)]
               ELSE bks[b]]
      [] stmt.sql = SqlClearPdf ->
           [b \in DOMAIN bks |->
               IF b = stmt.params[1].v
               THEN [bks[b] EXCEPT !.pdf_links = Null, !.has_pdf = Num(0)]
               ELSE bks[b]]
      [] OTHER -> bks

\* name LIKE pattern: % matches any run of characters, _ any one character
RECURSIVE LikeMatch(_, _, _, _)
LikeMatch(pat, i, val, j) ==
    IF i > Len(pat) THEN j > Len(val)
    ELSE IF pat[i] = "%"
         THEN LikeMatch(pat, i + 1, val, j) \/ (j <= Len(val) /\ LikeMatch(pat, i, val, j + 1))
    ELSE IF j > Len(val) THEN FALSE
    ELSE (pat[i] = "_" \/ pat[i] = val[j]) /\ LikeMatch(pat, i + 1, val, j + 1)
Like(pattern, name) == LikeMatch(pattern.v, 1, name.v, 1)

\* rows come back in rowid order unless the statement orders them
RECURSIVE ById(_)
ById(ids) ==
    IF ids = {} THEN <<>>
    ELSE CHOOSE out \in
            {<<m>> \o ById(ids \ {m}) : m \in {x \in ids : \A y \in ids : x <= y}} : TRUE

\* ORDER BY name ASC
Alphabet ==
    <<"a", "b", "c", "d", "e", "f", "g", "h", "i", "j", "k", "l", "m",
      "n", "o", "p", "q", "r", "s", "t", "u", "v", "w", "x", "y", "z">>
CharRank(c) == CHOOSE i \in DOMAIN Alphabet : Alphabet[i] = c
RECURSIVE NameBefore(_, _, _)
NameBefore(a, b, i) ==
    IF i > Len(a) THEN i <= Len(b)
    ELSE IF i > Len(b) THEN FALSE
    ELSE IF a[i] = b[i] THEN NameBefore(a, b, i + 1)
    ELSE CharRank(a[i]) < CharRank(b[i])
RECURSIVE ByName(_, _)
ByName(table, ids) ==
    IF ids = {} THEN <<>>
    ELSE CHOOSE out \in
            {<<m>> \o ByName(table, ids \ {m}) :
                m \in {x \in ids :
                          \A y \in ids \ {x} :
                             \/ NameBefore(table[x].name.v, table[y].name.v, 1)
                             \/ (table[x].name = table[y].name /\ x < y)}} : TRUE

\* the column of a LEFT JOIN: NULL when no row of the table matches
JoinedName(table, id) ==
    IF id.kind = "num" /\ id.v \in DOMAIN table THEN table[id.v].name ELSE Null

\* what cursor.fetchall returns
FetchAll(stmt, bks, aus, cts) ==
    CASE stmt.sql = SqlSelectBook ->
           LET b == stmt.params[1].v IN
           IF b \in DOMAIN bks
           THEN <<<<bks[b].name, bks[b].author_id, bks[b].cat_id, bks[b].pdf_links,
                    bks[b].info_long, bks[b].printed, bks[b].size>>>>
           ELSE <<>>
      [] stmt.sql = SqlSelectAuthor ->
           LET a == stmt.params[1].v IN
           IF a \in DOMAIN aus THEN <<<<aus[a].name, aus[a].death>>>> ELSE <<>>
      [] stmt.sql = SqlSelectCat ->
           LET c == stmt.params[1].v IN
           IF c \in DOMAIN cts THEN <<<<cts[c].name>>>> ELSE <<>>
      [] stmt.sql = SqlSelectAuthorBio ->
           LET a == stmt.params[1].v IN
           IF a \in DOMAIN aus
           THEN <<<<aus[a].name, aus[a].death, aus[a].death_inexact_label>>>>
           ELSE <<>>
      [] stmt.sql = SqlLikeCats ->
           LET ids == ById({c \in DOMAIN cts : Like(stmt.params[1], cts[c].name)})
           IN [i \in DOMAIN ids |-> <<Num(ids[i])>>]
      [] stmt.sql = SqlLikeAuthors ->
           LET ids == ById({a \in DOMAIN aus : Like(stmt.params[1], aus[a].name)})
           IN [i \in DOMAIN ids |-> <<Num(ids[i])>>]
      [] stmt.sql = SqlListCats ->
           LET ids == ByName(cts, DOMAIN cts)
           IN [i \in DOMAIN ids |-> <<Num(ids[i]), cts[ids[i]].name>>]
      [] stmt.sql = SqlListAuthors ->
           LET ids == ByName(aus, DOMAIN aus)
           IN [i \in DOMAIN ids |->
                 <<Num(ids[i]), aus[ids[i]].name, aus[ids[i]].death,
                   aus[ids[i]].death_inexact_label>>]
      [] stmt.sql = SqlSelectJoin ->
           LET b == stmt.params[1].v IN
           IF b \in DOMAIN bks
           THEN <<<<bks[b].name, JoinedName(aus, bks[b].author_id),
                    JoinedName(cts, bks[b].cat_id), bks[b].pdf_links, bks[b].info_long>>>>
           ELSE <<>>
      [] OTHER -> <<>>

\* _query_local_db_sync: rows on success, None on sqlite3.Error
QueryNone == [none |-> TRUE, rows |-> <<>>]
QueryRows(rows) == [none |-> FALSE, rows |-> rows]
QueryTruthy(r) == ~r.none /\ Len(r.rows) > 0
QueryLocalDbSync(stmt, sqliteOk, bks, aus, cts) ==
    IF sqliteOk THEN QueryRows(FetchAll(stmt, bks, aus, cts)) ELSE QueryNone
\* (variant of BooksAfterQuery: the effect of a statement that failed stays)
BooksAfterQueryKeepsFailed(stmt, sqliteOk, bks) == ExecuteBooks(stmt, bks)
BooksAfterQuery(stmt, sqliteOk, bks) ==
    IF sqliteOk THEN ExecuteBooks(stmt, bks) ELSE bks

\* ------------------------------------------- the gateway, line by line
\* _query_local_db_sync as the worker threads of asyncio.to_thread run it:
\* one step per line that touches the connection.
\*   line        where the thread stands in the function
\*   query       the call's (query, params)
\*   conn        the local variable conn (NoConn for None)
\*   gw_results  the value the call returns
\*   raised_at   the line whose sqlite3.Error took the call to the except clause
\*   connected   connections the call has opened
\*   execute_calls    cursor.execute calls the call has made
\*   open_conns  connections opened and not yet closed
\*   opened      connections opened so far
MaxConns == 3
VARIABLES line, query, conn, gw_results, raised_at, connected, execute_calls, open_conns, opened
gatewayVars == <<line, query, conn, gw_results, raised_at, connected, execute_calls, open_conns, opened>>

NoConn == 0
NoQuery == Statement("", <<>>)
GatewayQueries ==
    {Statement(SqlUpdatePdf, <<JsonDumps(PdfA), Num(1)>>),
     Statement(SqlSelectBook, <<Num(1)>>)}
GatewayIdle(t) == line[t] \in {"idle", "returned"}

\* (variant of AfterFinally: the connection is closed on the success path only)
AfterFinallyLeaksOnError(c, failed, open) ==
    IF c # NoConn /\ ~failed THEN open \ {c} ELSE open
\* finally: if conn: conn.close()
AfterFinally(c, failed, open) ==
    IF c # NoConn THEN open \ {c} ELSE open

\* except sqlite3.Error: return None  (the finally clause is still to run)
GatewayExcept(t, at) ==
    /\ gw_results' = [gw_results EXCEPT ![t] = QueryNone]
    /\ raised_at' = [raised_at EXCEPT ![t] = at]
    /\ line' = [line EXCEPT ![t] = "finally"]

\* the thread enters the function: conn = None
GatewayCall(t) ==
    /\ GatewayIdle(t)
    /\ opened + Cardinality({u \in Procs : line[u] = "connect"}) < MaxConns
    /\ \E q \in GatewayQueries : query' = [query EXCEPT ![t] = q]
    /\ line' = [line EXCEPT ![t] = "connect"]
    /\ conn' = [conn EXCEPT ![t] = NoConn]
    /\ gw_results' = [gw_results EXCEPT ![t] = QueryNone]
    /\ raised_at' = [raised_at EXCEPT ![t] = ""]
    /\ connected' = [connected EXCEPT ![t] = 0]
    /\ execute_calls' = [execute_calls EXCEPT ![t] = 0]
    /\ UNCHANGED <<open_conns, opened, books>>

\* conn = sqlite3.connect(DB_PATH): a new connection, or sqlite3.Error
GatewayConnect(t) ==
    /\ line[t] = "connect"
    /\ \/ /\ conn' = [conn EXCEPT ![t] = opened + 1]
          /\ open_conns' = open_conns \cup {opened + 1}
          /\ opened' = opened + 1
          /\ connected' = [connected EXCEPT ![t] = @ + 1]
          /\ line' = [line EXCEPT ![t] = "execute"]
          /\ UNCHANGED <<gw_results, raised_at>>
       \/ /\ GatewayExcept(t, "connect")
          /\ UNCHANGED <<conn, open_conns, opened, connected>>
    /\ UNCHANGED <<query, execute_calls, books>>

\* cursor.execute(query, params)
GatewayExecute(t) ==
    /\ line[t] = "execute"
    /\ execute_calls' = [execute_calls EXCEPT ![t] = @ + 1]
    /\ \/ /\ line' = [line EXCEPT ![t] = "fetchall"]
          /\ UNCHANGED <<gw_results, raised_at>>
       \/ GatewayExcept(t, "execute")
    /\ UNCHANGED <<query, conn, connected, open_conns, opened, books>>

\* gw_results = cursor.fetchall()
GatewayFetchAll(t) ==
    /\ line[t] = "fetchall"
    /\ gw_results' = [gw_results EXCEPT ![t] = QueryRows(FetchAll(query[t], books, authors, cats))]
    /\ line' = [line EXCEPT ![t] = "commit"]
    /\ UNCHANGED <<query, conn, raised_at, connected, execute_calls, open_conns, opened, books>>

\* conn.commit(): the statement's effect reaches the file, or sqlite3.Error
\* and the effect is dropped with the connection
GatewayCommit(t) ==
    /\ line[t] = "commit"
    /\ \/ /\ books' = ExecuteBooks(query[t], books)
          /\ line' = [line EXCEPT ![t] = "finally"]
          /\ UNCHANGED <<gw_results, raised_at>>
       \/ /\ GatewayExcept(t, "commit")
          /\ UNCHANGED books
    /\ UNCHANGED <<query, conn, connected, execute_calls, open_conns, opened>>

\* finally: if conn: conn.close(); the function returns
GatewayFinally(t) ==
    /\ line[t] = "finally"
    /\ open_conns' = AfterFinally(conn[t], raised_at[t] # "", open_conns)
    /\ line' = [line EXCEPT ![t] = "returned"]
    /\ UNCHANGED <<query, conn, gw_results, raised_at, connected, execute_calls, opened, books>>

\* ------------------------------------------------------- remote catalog
RemoteOk(json) == [kind |-> "ok", code |-> 200, json |-> json]
RemoteStatusError(code) == [kind |-> "HTTPStatusError", code |-> code, json |-> EmptyDict]
RemoteRequestError == [kind |-> "RequestError", code |-> 0, json |-> EmptyDict]
RemoteUnexpected == [kind |-> "Exception", code |-> 0, json |-> EmptyDict]
RemoteFailures == {RemoteStatusError(404), RemoteStatusError(500), RemoteRequestError, RemoteUnexpected}

ErrorDict(error, details) == <<Entry("error", Str(error)), Entry("details", Str(details))>>
ApiErrorText(code) == IF code = 404 THEN "API Error: 404" ELSE "API Error: 500"

\* the try/except around http_client.get in get_book_details and get_author_bio
ApiResultOf(outcome) ==
    CASE outcome.kind = "ok" -> outcome.json
      [] outcome.kind = "HTTPStatusError" ->
           ErrorDict(ApiErrorText(outcome.code), "str(HTTPStatusError)")
      [] outcome.kind = "RequestError" ->
           ErrorDict("Request Error: Failed to connect to Turath API.", "str(RequestError)")
      [] OTHER ->
           ErrorDict("An unexpected error occurred during API call.", "str(Exception)")

\* ------------------------------------------------------------- requests
VARIABLES pc, op, book_id, params, api_result, book_info, log

\* The inputs are explored in four scopes, fixed by Init:
\*   "lookup"      one request slot, the operations that only read the store,
\*                 drawing from every argument and every response shape;
\*   "sequential"  one request slot, every operation, get_book_details
\*                 drawing from every book id and every payload shape, the
\*                 other operations from one argument and response each;
\*   "concurrent"  every request slot, get_book_details (the one operation
\*                 that writes), drawing from one book id and the payload
\*                 shapes FewMetaValues (slot 2 also from a second payload
\*                 without meta); the remote and the reconcile write may fail
\*                 for slot 1, and every read is answered;
\*   "falsy"       one request slot, every operation, over a store whose
\*                 book rows have an author_id or a cat_id of 0 and search
\*                 hits whose book_id, vol, page, page_id are 0 and whose
\*                 names are empty.
VARIABLE scenario
Scenarios == {"lookup", "sequential", "concurrent", "falsy"}
ScopeProcs == IF scenario = "concurrent" THEN Procs ELSE {1}
LookupProcs == IF scenario = "concurrent" THEN {} ELSE {1}
ScopeBookIds ==
    CASE scenario = "lookup" -> {}
      [] scenario = "sequential" -> RequestBookIds
      [] scenario = "falsy" -> SeedBookIds
      [] OTHER -> {1}
ScopeMetas == IF scenario = "sequential" THEN MetaValues ELSE FewMetaValues
ScopeBookPayloads(p, b) ==
    BookPayloads(b, ScopeMetas)
    \cup (IF scenario = "concurrent" /\ p = 2 THEN {BookPayloadRenamed(b)} ELSE {})
ScopeIncludes == IF scenario = "concurrent" THEN {Null} ELSE {Null, Str("indexes")}
ScopeFailures(p) ==
    IF scenario # "concurrent" THEN RemoteFailures
    ELSE IF p = 1 THEN {RemoteRequestError} ELSE {}
ScopeWriteOk(p) == IF scenario = "concurrent" /\ p # 1 THEN {TRUE} ELSE BOOLEAN
ScopeCancel == IF scenario = "lookup" THEN {} ELSE {1}
ScopeReadOk == IF scenario = "concurrent" THEN {TRUE} ELSE BOOLEAN
ScopeOutcomes(p, payloads) == {RemoteOk(j) : j \in payloads} \cup ScopeFailures(p)

\* History variables (the code holds none of them):
\*   fetched[p]  the remote outcome request p received
\*   raced[p]    another request's UPDATE of the same book id ran between
\*               p's reconcile write and p's enrichment read
\*   dirty[p]    another request that received a different remote outcome
\*               ran an UPDATE of the same book id since p's fetch
\*   overlap     the pairs of requests whose executions overlapped
\*   prev        the previous get_book_details call of a slot, when no other
\*               request overlapped it, while the slot's next call follows
\*               it with nothing in between
VARIABLES fetched, raced, dirty, overlap, prev
\*   busy        the slots called since every slot was last idle (calls), as
\*               long as none of them was called a second time (again)
VARIABLE busy
\*   sent        the remote requests the slot's current call has sent
VARIABLE sent
\*   enrich_conn what the batch enrichment of the slot's current call did with
\*               its connection: how many it opened, which it left open
VARIABLE enrich_conn
NoEnrichment == [opened |-> 0, open |-> {}]

storeVars == <<books, authors, cats>>
vars == <<books, authors, cats, scenario, fetched, raced, dirty, overlap, prev, busy,
          pc, op, book_id, params, api_result, book_info, log, sent, enrich_conn, gatewayVars>>

Idle(p) == pc[p] \in {"idle", "done", "cancelled"}
InFlight(p) == ~Idle(p)
\* a slot in which a read-only handler may be called. In the "lookup" scope
\* the store never changes and a call overwrites what its slot held, so a later
\* call reaches nothing the first call does not: one call per behaviour there.
Callable(p) ==
    /\ p \in LookupProcs
    /\ IF scenario = "lookup" THEN pc[p] = "idle" ELSE Idle(p)
Logged(stmt, sqliteOk) == [stmt |-> stmt, ok |-> sqliteOk]
IsUpdate(stmt) == stmt.sql \in {SqlUpdatePdf, SqlClearPdf}

PrevNone == [stage |-> "none", proc |-> 0, book_id |-> 0, outcome |-> RemoteOk(EmptyDict),
             books |-> <<>>, write_failed |-> FALSE]

\* a tool call by p begins
HistoryOnCall(p, b, isBookDetails) ==
    /\ raced' = [raced EXCEPT ![p] = FALSE]
    /\ dirty' = [dirty EXCEPT ![p] = FALSE]
    /\ overlap' = {pr \in overlap : pr[1] # p /\ pr[2] # p}
                  \cup {<<p, q>> : q \in {r \in Procs : InFlight(r)}}
                  \cup {<<q, p>> : q \in {r \in Procs : InFlight(r)}}
    /\ busy' = IF \A q \in Procs : Idle(q) THEN [calls |-> {p}, again |-> FALSE]
               ELSE IF busy.again \/ p \in busy.calls THEN [calls |-> {}, again |-> TRUE]
               ELSE [busy EXCEPT !.calls = @ \cup {p}]
    /\ prev' = IF /\ isBookDetails /\ prev.stage = "first" /\ prev.proc = p
                  /\ prev.book_id = b /\ \A q \in Procs : Idle(q)
               THEN [prev EXCEPT !.stage = "armed"]
               ELSE PrevNone

\* p's call returns (p takes its last step)
HistoryOnReturn(p, newLog) ==
    prev' = IF prev.stage = "second" /\ prev.proc = p
            THEN [prev EXCEPT !.stage = "checked"]
            ELSE IF /\ fetched[p].kind = "ok"
                    /\ \A q \in Procs \ {p} : Idle(q) /\ <<p, q>> \notin overlap
            THEN [stage |-> "first", proc |-> p, book_id |-> book_id[p],
                  outcome |-> fetched[p], books |-> books,
                  write_failed |-> \E i \in DOMAIN newLog :
                                       IsUpdate(newLog[i].stmt) /\ ~newLog[i].ok]
            ELSE PrevNone

\* (variant of ReconcileStatement that does not look at root)
ReconcileStatementIgnoresRoot(result, b) ==
    LET api_meta == Get(result, "meta") IN
    IF IsDict(api_meta)
    THEN LET pdf_links_from_api == ObjGet(api_meta, "pdf_links") IN
         IF IsDict(pdf_links_from_api) /\ Truthy(ObjGet(pdf_links_from_api, "files"))
         THEN <<Statement(SqlUpdatePdf, <<JsonDumps(pdf_links_from_api), Num(b)>>)>>
         ELSE <<Statement(SqlClearPdf, <<Num(b)>>)>>
    ELSE <<>>

\* get_book_details, lines 141-165: the UPDATE the handler issues, if any
ReconcileStatement(result, b) ==
    LET api_meta == Get(result, "meta") IN
    IF IsDict(api_meta)
    THEN LET pdf_links_from_api == ObjGet(api_meta, "pdf_links") IN
         IF /\ IsDict(pdf_links_from_api)
            /\ Truthy(ObjGet(pdf_links_from_api, "files"))
            /\ Truthy(ObjGet(pdf_links_from_api, "root"))
         THEN <<Statement(SqlUpdatePdf, <<JsonDumps(pdf_links_from_api), Num(b)>>)>>
         ELSE <<Statement(SqlClearPdf, <<Num(b)>>)>>
    ELSE <<>>

\* (variant of AfterFetch that goes on after a remote failure)
AfterFetchErrorIgnored(result, b) ==
    IF ReconcileStatement(result, b) # <<>> THEN "write" ELSE "read_book"
\* where get_book_details goes once api_result is set (lines 141-167, 199)
AfterFetch(result, b) ==
    IF Has(result, "error") THEN "done"
    ELSE IF ReconcileStatement(result, b) # <<>> THEN "write"
    ELSE "read_book"

\* (variant of AttachBook that returns a blob read before the write)
AttachBookStale(result, info) ==
    Put(Put(Put(Put(Put(result, "local_book_name", info[1]),
                    "local_pdf_links", JsonDumps(PdfOld)),
                "local_info_long", info[5]),
            "local_printed", info[6]),
        "local_size_mb", info[7])
\* (variant of AttachBook that reports no blob whatever the row holds)
AttachBookDropsBlob(result, info) ==
    Put(Put(Put(Put(Put(result, "local_book_name", info[1]),
                    "local_pdf_links", Null),
                "local_info_long", info[5]),
            "local_printed", info[6]),
        "local_size_mb", info[7])
\* lines 171-177: the book row was found
AttachBook(result, info) ==
    Put(Put(Put(Put(Put(result, "local_book_name", info[1]),
                    "local_pdf_links", info[4]),
                "local_info_long", info[5]),
            "local_printed", info[6]),
        "local_size_mb", info[7])

\* (variant of BookNotFound that turns the failed lookup into an error)
BookNotFoundEscalates(result) ==
    ErrorDict("Database query failed for book.", "str(sqlite3.Error)")
\* (variant of BookNotFound that attaches nothing)
BookNotFoundSilent(result) == result
\* lines 196-197: no row, or the query failed
BookNotFound(result) ==
    Put(result, "local_db_status", Str("Book ID tidak ditemukan di DB lokal."))

\* (variant of Sent: the request is sent a second time)
SentTwice(path) == <<path, path>>
\* one await http_client.get(path)
Sent(path) == <<path>>

\* the tool is called: params are built (lines 116-120)
GetBookDetailsCall(p) ==
    /\ Idle(p) /\ p \in ScopeProcs
    /\ \E b \in ScopeBookIds, include \in ScopeIncludes :
          /\ book_id' = [book_id EXCEPT ![p] = b]
          /\ params' = [params EXCEPT ![p] =
                LET base == <<Entry("id", Num(b)), Entry("ver", Num(3))>> IN
                IF Truthy(include) THEN Put(base, "include", include) ELSE base]
          /\ HistoryOnCall(p, b, TRUE)
    /\ op' = [op EXCEPT ![p] = "get_book_details"]
    /\ api_result' = [api_result EXCEPT ![p] = EmptyDict]
    /\ book_info' = [book_info EXCEPT ![p] = <<>>]
    /\ log' = [log EXCEPT ![p] = <<>>]
    /\ pc' = [pc EXCEPT ![p] = "fetch"]
    /\ fetched' = [fetched EXCEPT ![p] = RemoteOk(EmptyDict)]
    /\ sent' = [sent EXCEPT ![p] = Sent("/book")]
    /\ enrich_conn' = [enrich_conn EXCEPT ![p] = NoEnrichment]
    /\ UNCHANGED <<storeVars, scenario>>

\* the awaited http_client.get("/book") answers (lines 121-139); the handler
\* runs on to its next await or to its return (lines 141-166, 199)
GetBookDetailsFetch(p) ==
    /\ pc[p] = "fetch" /\ op[p] = "get_book_details"
    /\ \E outcome \in ScopeOutcomes(p, ScopeBookPayloads(p, book_id[p])) :
          LET result == ApiResultOf(outcome) IN
          /\ fetched' = [fetched EXCEPT ![p] = outcome]
          /\ api_result' = [api_result EXCEPT ![p] = result]
          /\ pc' = [pc EXCEPT ![p] = AfterFetch(result, book_id[p])]
          /\ prev' = IF prev.stage = "armed" /\ prev.proc = p /\ prev.outcome = outcome
                     THEN [prev EXCEPT !.stage = "second"]
                     ELSE PrevNone
    /\ params' = [params EXCEPT ![p] = EmptyDict]
    /\ UNCHANGED <<storeVars, scenario, busy, sent, enrich_conn, raced, dirty, overlap, op, book_id,
                   book_info, log>>

\* the worker thread runs the reconcile UPDATE (lines 150-165)
GetBookDetailsWrite(p) ==
    /\ pc[p] = "write" /\ op[p] = "get_book_details"
    /\ LET stmt == ReconcileStatement(api_result[p], book_id[p])[1] IN
       \E sqliteOk \in ScopeWriteOk(p) :
          /\ books' = BooksAfterQuery(stmt, sqliteOk, books)
          /\ log' = [log EXCEPT ![p] = Append(@, Logged(stmt, sqliteOk))]
          /\ raced' = [q \in Procs |->
                raced[q] \/ (/\ q # p /\ sqliteOk /\ op[q] = "get_book_details"
                             /\ pc[q] = "read_book" /\ book_id[q] = book_id[p])]
          /\ dirty' = [q \in Procs |->
                dirty[q] \/ (/\ q # p /\ sqliteOk /\ op[q] = "get_book_details"
                             /\ pc[q] \notin {"idle", "fetch"}
                             /\ book_id[q] = book_id[p] /\ fetched[q] # fetched[p])]
    /\ pc' = [pc EXCEPT ![p] = "read_book"]
    /\ UNCHANGED <<authors, cats, scenario, busy, sent, enrich_conn, fetched, overlap, prev,
                   op, book_id, params, api_result, book_info>>

\* (variant of OrphanedWrite: the statement of a cancelled request is interrupted)
OrphanedWriteInterrupted(stmt, sqliteOk, bks) == bks
\* the statement running in a worker thread when its request is cancelled: the
\* thread of asyncio.to_thread runs _query_local_db_sync to its end
OrphanedWrite(stmt, sqliteOk, bks) == BooksAfterQuery(stmt, sqliteOk, bks)

\* the caller cancels the request while it awaits the reconcile UPDATE (lines
\* 154, 162): CancelledError leaves the handler at the await, the worker thread
\* finishes the statement and nobody receives its result
GetBookDetailsCancelWrite(p) ==
    /\ pc[p] = "write" /\ op[p] = "get_book_details"
    /\ p \in ScopeCancel
    /\ LET stmt == ReconcileStatement(api_result[p], book_id[p])[1] IN
       \E sqliteOk \in ScopeWriteOk(p) :
          /\ books' = OrphanedWrite(stmt, sqliteOk, books)
          /\ log' = [log EXCEPT ![p] = Append(@, Logged(stmt, sqliteOk))]
          /\ raced' = [q \in Procs |->
                raced[q] \/ (/\ q # p /\ sqliteOk /\ op[q] = "get_book_details"
                             /\ pc[q] = "read_book" /\ book_id[q] = book_id[p])]
          /\ dirty' = [q \in Procs |->
                dirty[q] \/ (/\ q # p /\ sqliteOk /\ op[q] = "get_book_details"
                             /\ pc[q] \notin {"idle", "fetch"}
                             /\ book_id[q] = book_id[p] /\ fetched[q] # fetched[p])]
    /\ pc' = [pc EXCEPT ![p] = "cancelled"]
    /\ prev' = PrevNone
    /\ UNCHANGED <<authors, cats, scenario, busy, sent, enrich_conn, fetched, overlap,
                   op, book_id, params, api_result, book_info>>

\* the worker thread runs the enrichment SELECT on books (lines 167-181, 196-197)
GetBookDetailsReadBook(p) ==
    /\ pc[p] = "read_book" /\ op[p] = "get_book_details"
    /\ LET stmt == Statement(SqlSelectBook, <<Num(book_id[p])>>) IN
       \E sqliteOk \in ScopeReadOk :
          LET local_data == QueryLocalDbSync(stmt, sqliteOk, books, authors, cats) IN
          /\ log' = [log EXCEPT ![p] = Append(@, Logged(stmt, sqliteOk))]
          /\ IF QueryTruthy(local_data)
             THEN LET info == local_data.rows[1] IN
                  /\ api_result' = [api_result EXCEPT ![p] = AttachBook(@, info)]
                  /\ book_info' = [book_info EXCEPT ![p] = info]
                  /\ pc' = [pc EXCEPT ![p] =
                        IF Truthy(info[2]) THEN "read_author"
                        ELSE IF Truthy(info[3]) THEN "read_cat" ELSE "done"]
             ELSE /\ api_result' = [api_result EXCEPT ![p] = BookNotFound(@)]
                  /\ book_info' = book_info
                  /\ pc' = [pc EXCEPT ![p] = "done"]
          /\ IF pc'[p] = "done" THEN HistoryOnReturn(p, log'[p]) ELSE prev' = prev
    /\ UNCHANGED <<storeVars, scenario, busy, sent, enrich_conn, fetched, raced, dirty, overlap, op,
                   book_id, params>>

\* lines 182-188
GetBookDetailsReadAuthor(p) ==
    /\ pc[p] = "read_author" /\ op[p] = "get_book_details"
    /\ LET stmt == Statement(SqlSelectAuthor, <<book_info[p][2]>>) IN
       \E sqliteOk \in ScopeReadOk :
          LET author_info == QueryLocalDbSync(stmt, sqliteOk, books, authors, cats) IN
          /\ log' = [log EXCEPT ![p] = Append(@, Logged(stmt, sqliteOk))]
          /\ api_result' = [api_result EXCEPT ![p] =
                IF QueryTruthy(author_info)
                THEN Put(Put(@, "local_author_name", author_info.rows[1][1]),
                         "local_author_death", author_info.rows[1][2])
                ELSE @]
    /\ pc' = [pc EXCEPT ![p] = IF Truthy(book_info[p][3]) THEN "read_cat" ELSE "done"]
    /\ IF pc'[p] = "done" THEN HistoryOnReturn(p, log'[p]) ELSE prev' = prev
    /\ UNCHANGED <<storeVars, scenario, busy, sent, enrich_conn, fetched, raced, dirty, overlap,
                   op, book_id, params, book_info>>

\* lines 190-195
GetBookDetailsReadCat(p) ==
    /\ pc[p] = "read_cat" /\ op[p] = "get_book_details"
    /\ LET stmt == Statement(SqlSelectCat, <<book_info[p][3]>>) IN
       \E sqliteOk \in ScopeReadOk :
          LET cat_info == QueryLocalDbSync(stmt, sqliteOk, books, authors, cats) IN
          /\ log' = [log EXCEPT ![p] = Append(@, Logged(stmt, sqliteOk))]
          /\ api_result' = [api_result EXCEPT ![p] =
                IF QueryTruthy(cat_info)
                THEN Put(@, "local_category_name", cat_info.rows[1][1])
                ELSE @]
    /\ pc' = [pc EXCEPT ![p] = "done"]
    /\ HistoryOnReturn(p, log'[p])
    /\ UNCHANGED <<storeVars, scenario, busy, sent, enrich_conn, fetched, raced, dirty, overlap,
                   op, book_id, params, book_info>>

\* a handler that runs from its call to its return in one step
Returns(p, name, b, response, statements, outcome, requests, arguments) ==
    /\ Callable(p)
    /\ sent' = [sent EXCEPT ![p] = requests]
    /\ enrich_conn' = [enrich_conn EXCEPT ![p] = NoEnrichment]
    /\ op' = [op EXCEPT ![p] = name]
    /\ book_id' = [book_id EXCEPT ![p] = b]
    /\ params' = [params EXCEPT ![p] = arguments]
    /\ api_result' = [api_result EXCEPT ![p] = response]
    /\ book_info' = [book_info EXCEPT ![p] = <<>>]
    /\ log' = [log EXCEPT ![p] = statements]
    /\ pc' = [pc EXCEPT ![p] = "done"]
    /\ fetched' = [fetched EXCEPT ![p] = outcome]
    /\ HistoryOnCall(p, b, FALSE)
    /\ UNCHANGED <<storeVars, scenario>>

\* ------------------------------------------------------- get_filter_ids
NameArgs ==
    {Null, Chars(<<>>), Chars(<<"f">>), Chars(<<"f", "i", "q", "h">>),
     Chars(<<"z">>), Chars(<<"%">>)}
ScopeNames == IF scenario = "lookup" THEN NameArgs ELSE {Chars(<<"f">>)}

\* str(int)
Digits == <<"0", "1", "2", "3", "4", "5", "6", "7", "8", "9">>
RECURSIVE StrOfInt(_)
StrOfInt(n) ==
    IF n < 10 THEN <<Digits[n + 1]>> ELSE StrOfInt(n \div 10) \o <<Digits[(n % 10) + 1]>>

\* ",".join([str(row[0]) for row in rows])
RECURSIVE JoinIdsFrom(_, _)
JoinIdsFrom(rows, i) ==
    IF i > Len(rows) THEN <<>>
    ELSE (IF i > 1 THEN <<",">> ELSE <<>>) \o StrOfInt(rows[i][1].v) \o JoinIdsFrom(rows, i + 1)
\* (variant of JoinIds: only the first row's id is reported)
JoinIdsFirstOnly(rows) == Chars(StrOfInt(rows[1][1].v))
JoinIds(rows) == Chars(JoinIdsFrom(rows, 1))

LikeParam(name) == Chars(<<"%">> \o name.v \o <<"%">>)
NoIdsFound ==
    <<Entry("message",
            Str("Tidak ada ID yang ditemukan untuk nama kategori atau penulis yang diberikan."))>>

\* (variant of AuthorQueryIssued: the author query runs only after a category
\* match)
AuthorQueryAfterMatch(author_name, cat_found) == Truthy(author_name) /\ cat_found
\* line 84: the author query depends on author_name alone
AuthorQueryIssued(author_name, cat_found) == Truthy(author_name)

GetFilterIds(p) ==
    \E category_name \in ScopeNames, author_name \in ScopeNames, catOk \in BOOLEAN,
       authorOk \in BOOLEAN :
       LET cat_stmt == Statement(SqlLikeCats, <<LikeParam(category_name)>>)
           author_stmt == Statement(SqlLikeAuthors, <<LikeParam(author_name)>>)
           cat_rows == QueryLocalDbSync(cat_stmt, catOk, books, authors, cats)
           author_rows == QueryLocalDbSync(author_stmt, authorOk, books, authors, cats)
           cat_found == Truthy(category_name) /\ QueryTruthy(cat_rows)
           author_queried == AuthorQueryIssued(author_name, cat_found)
           author_found == author_queried /\ QueryTruthy(author_rows)
           results ==
               <<Entry("category_ids", IF cat_found THEN JoinIds(cat_rows.rows) ELSE Null),
                 Entry("author_ids", IF author_found THEN JoinIds(author_rows.rows) ELSE Null)>>
       IN Returns(p, "get_filter_ids", 0,
                  IF cat_found \/ author_found THEN results ELSE NoIdsFound,
                  (IF Truthy(category_name) THEN <<Logged(cat_stmt, catOk)>> ELSE <<>>)
                     \o (IF author_queried THEN <<Logged(author_stmt, authorOk)>> ELSE <<>>),
                  RemoteOk(EmptyDict), <<>>,
                  <<Entry("category_name", category_name),
                    Entry("author_name", author_name)>>)

\* ----------------------------------------------------- get_page_content
PagePayloads == {<<Entry("text", Str("page text")), Entry("meta", JsonDumps(Obj(<<>>)))>>}
PageResultOf(outcome) ==
    CASE outcome.kind = "ok" -> outcome.json
      [] outcome.kind = "HTTPStatusError" ->
           ErrorDict(ApiErrorText(outcome.code), "str(HTTPStatusError)")
      [] outcome.kind = "RequestError" ->
           ErrorDict("Request Error: Failed to connect to Turath API.", "str(RequestError)")
      [] OTHER -> ErrorDict("An unexpected error occurred.", "str(Exception)")

GetPageContent(p) ==
    \E b \in (IF scenario = "lookup" THEN RequestBookIds ELSE {1}),
       outcome \in ScopeOutcomes(p, PagePayloads) :
       Returns(p, "get_page_content", b, PageResultOf(outcome), <<>>, outcome, Sent("/page"), EmptyDict)

\* ------------------------------------------------------- get_author_bio
AuthorIds == {1, 2}
ScopeAuthorIds == IF scenario = "lookup" THEN AuthorIds ELSE {1}
AuthorPayloads(a) == {<<Entry("id", Num(a)), Entry("info", Str("remote bio"))>>}

\* lines 395-406
AttachAuthor(result, local_data) ==
    IF QueryTruthy(local_data)
    THEN LET author_info == local_data.rows[1] IN
         Put(Put(Put(result, "local_author_name", author_info[1]),
                 "local_author_death", author_info[2]),
             "local_author_death_label", author_info[3])
    ELSE Put(result, "local_db_status", Str("Author ID tidak ditemukan di DB lokal."))

GetAuthorBio(p) ==
    \E author_id \in ScopeAuthorIds, sqliteOk \in BOOLEAN :
       \E outcome \in ScopeOutcomes(p, AuthorPayloads(author_id)) :
          LET result == ApiResultOf(outcome)
              stmt == Statement(SqlSelectAuthorBio, <<Num(author_id)>>)
              local_data == QueryLocalDbSync(stmt, sqliteOk, books, authors, cats)
          IN IF Has(result, "error")
             THEN Returns(p, "get_author_bio", 0, result, <<>>, outcome, Sent("/author"), EmptyDict)
             ELSE Returns(p, "get_author_bio", 0, AttachAuthor(result, local_data),
                          <<Logged(stmt, sqliteOk)>>, outcome, Sent("/author"), EmptyDict)

\* ------------------------------------ list_all_categories, list_all_authors
CategoriesList(rows) ==
    List([i \in DOMAIN rows |-> Obj(<<Entry("id", rows[i][1]), Entry("name", rows[i][2])>>)])
AuthorsList(rows) ==
    List([i \in DOMAIN rows |->
            Obj(<<Entry("id", rows[i][1]), Entry("name", rows[i][2]),
                  Entry("death", rows[i][3]), Entry("death_inexact_label", rows[i][4])>>)])

ListAllCategories(p) ==
    \E sqliteOk \in BOOLEAN :
       LET stmt == Statement(SqlListCats, <<>>)
           categories_rows == QueryLocalDbSync(stmt, sqliteOk, books, authors, cats)
       IN Returns(p, "list_all_categories", 0,
                  IF categories_rows.none
                  THEN <<Entry("error", Str("Database query failed for categories."))>>
                  ELSE <<Entry("categories", CategoriesList(categories_rows.rows))>>,
                  <<Logged(stmt, sqliteOk)>>, RemoteOk(EmptyDict), <<>>, EmptyDict)

ListAllAuthors(p) ==
    \E sqliteOk \in BOOLEAN :
       LET stmt == Statement(SqlListAuthors, <<>>)
           authors_rows == QueryLocalDbSync(stmt, sqliteOk, books, authors, cats)
       IN Returns(p, "list_all_authors", 0,
                  IF authors_rows.none
                  THEN <<Entry("error", Str("Database query failed for authors."))>>
                  ELSE <<Entry("authors", AuthorsList(authors_rows.rows))>>,
                  <<Logged(stmt, sqliteOk)>>, RemoteOk(EmptyDict), <<>>, EmptyDict)

\* ------------------------------------------------------- search_library
MaxItems == 2

\* the meta a /search hit carries: a JSON document in a str
MetaDoc == JsonDumps(Obj(<<Entry("book_name", Str("remote book")),
                           Entry("author_name", Str("remote author")),
                           Entry("category_name", Str("remote category")),
                           Entry("vol", Num(2)), Entry("page", Num(15)),
                           Entry("page_id", Num(99))>>))
MetaPageDoc == JsonDumps(Obj(<<Entry("vol", Num(2)), Entry("page", Num(15)),
                               Entry("page_id", Num(99))>>))
MetaEmptyDoc == JsonDumps(Obj(<<>>))
MetaBroken == Text(<<Punct("{")>>)
MetaListDoc == JsonDumps(List(<<>>))
Hit(b, meta) == Obj(<<Entry("book_id", Num(b)), Entry("text", Str("snippet")), Entry("meta", meta)>>)
SearchItems ==
    {Hit(1, MetaDoc),
     Obj(<<Entry("book_id", Num(NumBooks)), Entry("text", Str("snippet"))>>),
     Hit(NumBooks + 1, MetaDoc),
     Obj(<<Entry("text", Str("snippet")), Entry("meta", MetaEmptyDoc)>>),
     Obj(<<Entry("text", Str("snippet"))>>),
     Hit(1, MetaBroken),
     Hit(NumBooks, MetaListDoc),
     Hit(NumBooks + 1, Obj(<<Entry("vol", Num(2))>>)),
     Hit(1, MetaPageDoc),
     Hit(NumBooks + 1, MetaBroken),
     Obj(<<Entry("text", Str("snippet")), Entry("meta", MetaBroken)>>),
     Hit(2, MetaDoc)}
DataLists == UNION {[1..n -> SearchItems] : n \in 0..MaxItems}
SearchPayloads ==
    {<<Entry("count", Num(Len(d))), Entry("data", List(d))>> : d \in DataLists}
    \cup {<<Entry("count", Num(0))>>, <<Entry("count", Num(0)), Entry("data", Null)>>}
MetaZeroDoc == JsonDumps(Obj(<<Entry("book_name", Str("")), Entry("author_name", Str("")),
                               Entry("vol", Num(0)), Entry("page", Num(0)),
                               Entry("page_id", Num(0))>>))
ZeroItems == {Hit(0, MetaDoc), Hit(1, MetaZeroDoc), Hit(0, MetaZeroDoc)}
ZeroPayloads ==
    {<<Entry("count", Num(Len(d))), Entry("data", List(d))>> :
        d \in UNION {[1..n -> ZeroItems] : n \in 1..MaxItems}}
ScopeSearchPayloads ==
    IF scenario = "lookup" THEN SearchPayloads
    ELSE IF scenario = "falsy" THEN ZeroPayloads
    ELSE {<<Entry("count", Num(1)), Entry("data", List(<<Hit(1, MetaDoc)>>))>>}

\* lines 327-361
SearchErrorText(outcome) ==
    CASE outcome.kind = "HTTPStatusError" ->
           IF outcome.code = 404 THEN "Kesalahan API: 404. URL: /search"
           ELSE "Kesalahan API: 500. URL: /search"
      [] outcome.kind = "RequestError" ->
           "Kesalahan Permintaan: Gagal terhubung ke API Turath. URL: /search"
      [] OTHER -> "Terjadi kesalahan tak terduga di MCP server search_library."
SearchResultOf(outcome) ==
    CASE outcome.kind = "ok" -> outcome.json
      [] outcome.kind = "HTTPStatusError" ->
           Put(ErrorDict(SearchErrorText(outcome), "str(HTTPStatusError)"),
               "response_text", Str("exc.response.text"))
      [] outcome.kind = "RequestError" ->
           ErrorDict(SearchErrorText(outcome), "str(RequestError)")
      [] OTHER -> ErrorDict(SearchErrorText(outcome), "str(Exception)")

\* (variant of JoinParts: the parts are joined last to first)
RECURSIVE JoinPartsBackwards(_, _)
JoinPartsBackwards(parts, i) ==
    IF i > Len(parts) THEN <<>>
    ELSE (IF i > 1 THEN <<Str(", ")>> ELSE <<>>) \o parts[Len(parts) + 1 - i]
         \o JoinPartsBackwards(parts, i + 1)
\* lines 464-536: the reference string of one item, fragment by fragment
RECURSIVE JoinParts(_, _)
JoinParts(parts, i) ==
    IF i > Len(parts) THEN <<>>
    ELSE (IF i > 1 THEN <<Str(", ")>> ELSE <<>>) \o parts[i] \o JoinParts(parts, i + 1)

Placeholder == Str("Detail referensi tidak tersedia.")
\* (variants of ReferenceParts: the placeholder is added to whatever parts there
\* are; the placeholder is never added)
ReferencePartsPlaceholderFirst(parts) == <<<<Placeholder>>>> \o parts
ReferencePartsNoPlaceholder(parts) == parts
\* lines 533-534: if not reference_parts: append the placeholder
ReferenceParts(parts) == IF parts = <<>> THEN <<<<Placeholder>>>> ELSE parts

\* lines 426-536: one pass of the loop body; raised = an exception other than
\* json.JSONDecodeError left the body
\* (variant of NamePart: the name in meta is preferred to the local one)
NamePartMetaFirst(label, local_name, meta_name) ==
    IF Truthy(meta_name) THEN <<<<Str(label), meta_name>>>>
    ELSE IF Truthy(local_name) THEN <<<<Str(label), local_name>>>> ELSE <<>>
\* lines 478-502: the Kitab and Penulis parts, the locally joined name first
NamePart(label, local_name, meta_name) ==
    IF Truthy(local_name) THEN <<<<Str(label), local_name>>>>
    ELSE IF Truthy(meta_name) THEN <<<<Str(label), meta_name>>>> ELSE <<>>

\* (variant of LinkPart: the link never carries the page segment)
LinkPartBookLevel(book_id_api, page_id_ref) ==
    IF ~Truthy(book_id_api) THEN <<>>
    ELSE <<<<Str("Link: "), Str("https://shamela.ws"), Str("/book/"), book_id_api>>>>
\* lines 524-531: the Link part
LinkPart(book_id_api, page_id_ref) ==
    IF ~Truthy(book_id_api) THEN <<>>
    ELSE IF Truthy(page_id_ref)
    THEN <<<<Str("Link: "), Str("https://shamela.ws"), Str("/book/"),
             book_id_api, Str("/"), page_id_ref>>>>
    ELSE <<<<Str("Link: "), Str("https://shamela.ws"), Str("/book/"), book_id_api>>>>

\* (variant of Annotate: the status is set whenever the item has a book_id)
AnnotateStatusAlways(fields, rows, book_id_api) ==
    LET status == Fmt(<<Str("Book ID "), book_id_api, Str(" not found locally.")>>) IN
    IF Len(rows) > 0
    THEN Put(Put(Put(Put(Put(Put(fields, "local_book_name", rows[1][1]),
                             "local_author_name", rows[1][2]),
                         "local_category_name", rows[1][3]),
                     "local_pdf_links", rows[1][4]),
                 "local_info_long", rows[1][5]),
             "local_db_status", status)
    ELSE IF Truthy(book_id_api) THEN Put(fields, "local_db_status", status)
    ELSE fields
\* lines 433-462: what the local lookup adds to an item
Annotate(fields, rows, book_id_api) ==
    IF Len(rows) > 0
    THEN Put(Put(Put(Put(Put(fields, "local_book_name", rows[1][1]),
                         "local_author_name", rows[1][2]),
                     "local_category_name", rows[1][3]),
                 "local_pdf_links", rows[1][4]),
             "local_info_long", rows[1][5])
    ELSE IF Truthy(book_id_api)
    THEN Put(fields, "local_db_status",
             Fmt(<<Str("Book ID "), book_id_api, Str(" not found locally.")>>))
    ELSE fields

EnrichItem(hit, bks, aus, cts) ==
    CHOOSE out \in
       {LET book_id_api == ObjGet(item, "book_id")
            found == Len(rows) > 0
            local_book_name == IF found THEN rows[1][1] ELSE Null
            local_author_name == IF found THEN rows[1][2] ELSE Null
            local_cat_name == IF found THEN rows[1][3] ELSE Null
            annotated == Annotate(item.v, rows, book_id_api)
            meta_str == ObjGet(item, "meta")
            is_str == meta_str.kind \in {"text", "str"}
            decoded == Truthy(meta_str) /\ parsed.ok /\ IsDict(parsed.val)
            MetaGet(key) == IF decoded THEN ObjGet(parsed.val, key) ELSE Null
            vol == MetaGet("vol")
            page_num == MetaGet("page")
            page_id_ref == MetaGet("page_id")
            kitab == NamePart("Kitab: ", local_book_name, MetaGet("book_name"))
            penulis == NamePart("Penulis: ", local_author_name, MetaGet("author_name"))
            kategori == IF Truthy(local_cat_name)
                        THEN <<<<Str("Kategori: "), local_cat_name>>>> ELSE <<>>
            jilid == IF Truthy(vol) THEN <<<<Str("Jilid: "), vol>>>> ELSE <<>>
            halaman == IF Truthy(page_num) THEN <<<<Str("Halaman: "), page_num>>>> ELSE <<>>
            link == LinkPart(book_id_api, page_id_ref)
            parts == kitab \o penulis \o kategori \o jilid \o halaman \o link
            reference_parts == ReferenceParts(parts)
        IN [raised |-> Truthy(meta_str) /\ (~is_str \/ (parsed.ok /\ ~IsDict(parsed.val))),
            item |-> Obj(Put(annotated, "reference_info",
                             Fmt(<<Str("Sumber: ")>> \o JoinParts(reference_parts, 1))))] :
        item \in {hit},
        rows \in {IF Truthy(ObjGet(hit, "book_id"))
                  THEN FetchAll(Statement(SqlSelectJoin, <<ObjGet(hit, "book_id")>>),
                                bks, aus, cts)
                  ELSE <<>>},
        parsed \in {IF ObjGet(hit, "meta").kind = "text" THEN JsonLoads(ObjGet(hit, "meta"))
                    ELSE [ok |-> FALSE, val |-> Null]}} : TRUE

\* (variant of EnrichFrom: from the second pass on, an item gets the reference
\* composed in the previous pass)
RECURSIVE EnrichFromPreviousItem(_, _, _, _, _, _, _)
EnrichFromPreviousItem(data_list, i, failAt, statements, bks, aus, cts) ==
    IF i > Len(data_list)
    THEN [data |-> data_list, error |-> Null, raised |-> FALSE, log |-> statements]
    ELSE CHOOSE out \in
            {LET book_id_api == ObjGet(data[i], "book_id")
                 stmt == Statement(SqlSelectJoin, <<book_id_api>>)
                 executed == IF Truthy(book_id_api) THEN Append(done, Logged(stmt, TRUE))
                             ELSE done
             IN IF Truthy(book_id_api) /\ failAt = i
                THEN [data |-> data, error |-> Str("str(sqlite3.Error)"), raised |-> FALSE,
                      log |-> Append(done, Logged(stmt, FALSE))]
                ELSE IF e.raised
                THEN [data |-> data, error |-> Null, raised |-> TRUE, log |-> executed]
                ELSE EnrichFromPreviousItem(
                        [data EXCEPT ![i] =
                            IF i > 1
                            THEN Obj(Put(e.item.v, "reference_info",
                                         ObjGet(data[i - 1], "reference_info")))
                            ELSE e.item],
                        i + 1, failAt, executed, bks, aus, cts) :
             data \in {data_list}, done \in {statements},
             e \in {EnrichItem(data_list[i], bks, aus, cts)}} : TRUE
\* _enrich_search_results_sync; failAt = 0: sqlite3.connect fails, failAt = i:
\* cursor.execute fails for item i, failAt > Len(data_list): no sqlite3.Error
RECURSIVE EnrichFrom(_, _, _, _, _, _, _)
EnrichFrom(data_list, i, failAt, statements, bks, aus, cts) ==
    IF i > Len(data_list)
    THEN [data |-> data_list, error |-> Null, raised |-> FALSE, log |-> statements]
    ELSE CHOOSE out \in
            {LET book_id_api == ObjGet(data[i], "book_id")
                 stmt == Statement(SqlSelectJoin, <<book_id_api>>)
                 executed == IF Truthy(book_id_api) THEN Append(done, Logged(stmt, TRUE))
                             ELSE done
             IN IF Truthy(book_id_api) /\ failAt = i
                THEN [data |-> data, error |-> Str("str(sqlite3.Error)"), raised |-> FALSE,
                      log |-> Append(done, Logged(stmt, FALSE))]
                ELSE IF e.raised
                THEN [data |-> data, error |-> Null, raised |-> TRUE, log |-> executed]
                ELSE EnrichFrom([data EXCEPT ![i] = e.item], i + 1, failAt, executed,
                                bks, aus, cts) :
             data \in {data_list}, done \in {statements},
             e \in {EnrichItem(data_list[i], bks, aus, cts)}} : TRUE
\* (variant of EnrichSearchResultsSync: a store failure undoes the annotations
\* already applied)
EnrichSearchResultsSyncRollsBack(data_list, failAt, bks, aus, cts) ==
    IF failAt = 0
    THEN [data |-> data_list, error |-> Str("str(sqlite3.Error)"), raised |-> FALSE,
          log |-> <<>>]
    ELSE CHOOSE out \in
            {IF Truthy(r.error) THEN [r EXCEPT !.data = data_list] ELSE r :
             r \in {EnrichFrom(data_list, 1, failAt, <<>>, bks, aus, cts)}} : TRUE
EnrichSearchResultsSync(data_list, failAt, bks, aus, cts) ==
    IF failAt = 0
    THEN [data |-> data_list, error |-> Str("str(sqlite3.Error)"), raised |-> FALSE,
          log |-> <<>>]
    ELSE EnrichFrom(data_list, 1, failAt, <<>>, bks, aus, cts)

\* (variant of AfterEnrichFinally: the batch connection is never closed)
AfterEnrichFinallyLeaks(c, open) == open
\* lines 541-543: finally: if conn_enrich: conn_enrich.close()
AfterEnrichFinally(c, open) == IF c # NoConn THEN open \ {c} ELSE open
\* lines 420-423 and 541-543: conn_enrich over one run of the batch; failAt = 0
\* is sqlite3.connect failing, which leaves conn_enrich None
EnrichConnection(failAt) ==
    LET conn_enrich == IF failAt = 0 THEN NoConn ELSE 1
        made == {conn_enrich} \ {NoConn}
    IN [opened |-> Cardinality(made), open |-> AfterEnrichFinally(conn_enrich, made)]

\* the tool is called: params are built (lines 282-305)
SearchLibraryCall(p) ==
    /\ Callable(p)
    /\ \E page \in (IF scenario = "lookup" THEN {Null, Num(2)} ELSE {Null}),
          sort \in (IF scenario = "lookup" THEN {"default", "death"} ELSE {"default"}) :
          params' = [params EXCEPT ![p] =
             LET base == <<Entry("q", Str("query")), Entry("ver", Num(3)),
                           Entry("non_author", Num(1)), Entry("precision", Num(2))>>
                 sorted == IF sort # "default" THEN Put(base, "sort", Str(sort)) ELSE base
             IN IF page # Null THEN Put(sorted, "page", page) ELSE sorted]
    /\ op' = [op EXCEPT ![p] = "search_library"]
    /\ book_id' = [book_id EXCEPT ![p] = 0]
    /\ api_result' = [api_result EXCEPT ![p] = EmptyDict]
    /\ book_info' = [book_info EXCEPT ![p] = <<>>]
    /\ log' = [log EXCEPT ![p] = <<>>]
    /\ pc' = [pc EXCEPT ![p] = "fetch"]
    /\ fetched' = [fetched EXCEPT ![p] = RemoteOk(EmptyDict)]
    /\ sent' = [sent EXCEPT ![p] = Sent("/search")]
    /\ enrich_conn' = [enrich_conn EXCEPT ![p] = NoEnrichment]
    /\ HistoryOnCall(p, 0, FALSE)
    /\ UNCHANGED <<storeVars, scenario>>

\* the awaited http_client.get("/search") answers (lines 310-317, 327-361)
SearchLibraryFetch(p) ==
    /\ pc[p] = "fetch" /\ op[p] = "search_library"
    /\ \E outcome \in ScopeOutcomes(p, ScopeSearchPayloads) :
          LET result_json == SearchResultOf(outcome) IN
          /\ fetched' = [fetched EXCEPT ![p] = outcome]
          /\ api_result' = [api_result EXCEPT ![p] = result_json]
          /\ pc' = [pc EXCEPT ![p] =
                IF /\ outcome.kind = "ok" /\ Has(result_json, "data")
                   /\ Get(result_json, "data").kind = "list"
                THEN "enrich" ELSE "done"]
    /\ params' = [params EXCEPT ![p] = EmptyDict]
    /\ UNCHANGED <<storeVars, scenario, busy, sent, enrich_conn, raced, dirty, overlap, prev, op, book_id,
                   book_info, log>>

\* the worker thread runs _enrich_search_results_sync (lines 318-326, 353-361)
SearchLibraryEnrich(p) ==
    /\ pc[p] = "enrich" /\ op[p] = "search_library"
    /\ \E data_list \in {Get(api_result[p], "data").v} :
       \E failAt \in 0..(Len(data_list) + 1) :
       \E r \in {EnrichSearchResultsSync(data_list, failAt, books, authors, cats)} :
          LET enriched == Put(api_result[p], "data", List(r.data))
          IN /\ api_result' = [api_result EXCEPT ![p] =
                   IF r.raised THEN SearchResultOf(RemoteUnexpected)
                   ELSE IF Truthy(r.error) THEN Put(enriched, "enrichment_error", r.error)
                   ELSE enriched]
             /\ log' = [log EXCEPT ![p] = r.log]
             /\ enrich_conn' = [enrich_conn EXCEPT ![p] = EnrichConnection(failAt)]
    /\ pc' = [pc EXCEPT ![p] = "done"]
    /\ UNCHANGED <<storeVars, scenario, busy, sent, fetched, raced, dirty, overlap, prev, op, book_id,
                   params, book_info>>

\* ---------------------------------------------------------- specification
Init ==
    /\ scenario \in Scenarios
    /\ books = IF scenario = "falsy" THEN ZeroKeyBooks ELSE SeedBooks
    /\ authors = SeedAuthors
    /\ cats = SeedCats
    /\ fetched = [p \in Procs |-> RemoteOk(EmptyDict)]
    /\ raced = [p \in Procs |-> FALSE]
    /\ dirty = [p \in Procs |-> FALSE]
    /\ overlap = {}
    /\ prev = PrevNone
    /\ busy = [calls |-> {}, again |-> FALSE]
    /\ pc = [p \in Procs |-> "idle"]
    /\ op = [p \in Procs |-> "none"]
    /\ book_id = [p \in Procs |-> 0]
    /\ params = [p \in Procs |-> EmptyDict]
    /\ api_result = [p \in Procs |-> EmptyDict]
    /\ book_info = [p \in Procs |-> <<>>]
    /\ log = [p \in Procs |-> <<>>]
    /\ sent = [p \in Procs |-> <<>>]
    /\ enrich_conn = [p \in Procs |-> NoEnrichment]
    /\ line = [t \in Procs |-> "idle"]
    /\ query = [t \in Procs |-> NoQuery]
    /\ conn = [t \in Procs |-> NoConn]
    /\ gw_results = [t \in Procs |-> QueryNone]
    /\ raised_at = [t \in Procs |-> ""]
    /\ connected = [t \in Procs |-> 0]
    /\ execute_calls = [t \in Procs |-> 0]
    /\ open_conns = {}
    /\ opened = 0

Requests ==
    \E p \in Procs :
       \/ GetBookDetailsCall(p)
       \/ GetBookDetailsFetch(p)
       \/ GetBookDetailsWrite(p)
       \/ GetBookDetailsCancelWrite(p)
       \/ GetBookDetailsReadBook(p)
       \/ GetBookDetailsReadAuthor(p)
       \/ GetBookDetailsReadCat(p)
       \/ GetFilterIds(p)
       \/ GetPageContent(p)
       \/ SearchLibraryCall(p)
       \/ SearchLibraryFetch(p)
       \/ SearchLibraryEnrich(p)
       \/ GetAuthorBio(p)
       \/ ListAllCategories(p)
       \/ ListAllAuthors(p)


Next == Requests /\ UNCHANGED gatewayVars

Spec == Init /\ [][Next]_vars

\* the gateway on its own: threads in _query_local_db_sync over the seeded store
InitGateway == Init /\ scenario = "concurrent"
NextGateway ==
    /\ \E t \in Procs :
          \/ GatewayCall(t)
          \/ GatewayConnect(t)
          \/ GatewayExecute(t)
          \/ GatewayFetchAll(t)
          \/ GatewayCommit(t)
          \/ GatewayFinally(t)
    /\ UNCHANGED <<authors, cats, scenario, busy, sent, enrich_conn, fetched, raced, dirty, overlap, prev,
                   pc, op, book_id, params, api_result, book_info, log>>
SpecGateway == InitGateway /\ [][NextGateway]_vars

\* ================================================================ claims
IsBookDetails(p) == op[p] = "get_book_details"
Returned(p) == pc[p] = "done"
FetchOk(p) == fetched[p].kind = "ok"
UpdatesOf(p) == {i \in DOMAIN log[p] : IsUpdate(log[p][i].stmt)}
PdfState(row) == [pdf_links |-> row.pdf_links, has_pdf |-> row.has_pdf]

\* a stored pdf_links that parses to an object with a non-empty files list and
\* a non-empty root
WellFormedPdfLinks(col) ==
    /\ col.kind = "text"
    /\ LET parsed == JsonLoads(col) IN
       /\ parsed.ok
       /\ IsDict(parsed.val)
       /\ ObjGet(parsed.val, "files").kind = "list"
       /\ Len(ObjGet(parsed.val, "files").v) > 0
       /\ ObjGet(parsed.val, "root").kind = "str"
       /\ ObjGet(parsed.val, "root").v # ""

\* the (pdf_links, has_pdf) the specification derives from a remote response:
\* (serialized {files, root}, 1) when meta.pdf_links has a non-empty files and a
\* non-empty root, (NULL, 0) in every other case
ClaimedPdfState(json) ==
    LET meta == Get(json, "meta")
        pl == IF IsDict(meta) THEN ObjGet(meta, "pdf_links") ELSE Null
        files == IF IsDict(pl) THEN ObjGet(pl, "files") ELSE Null
        root == IF IsDict(pl) THEN ObjGet(pl, "root") ELSE Null
    IN IF files.kind = "list" /\ Len(files.v) > 0 /\ root.kind = "str" /\ root.v # ""
       THEN [pdf_links |-> JsonDumps(Obj(<<Entry("files", files), Entry("root", root)>>)),
             has_pdf |-> Num(1)]
       ELSE [pdf_links |-> Null, has_pdf |-> Num(0)]

\* C1: in every reachable state of the local store, every book row has
\* has_pdf = 1 if and only if its pdf_links is present and parses to a
\* non-empty files list and a non-empty root.
C1_HasPdfIffWellFormed ==
    \A b \in DOMAIN books :
       /\ books[b].has_pdf \in {Num(0), Num(1)}
       /\ (books[b].has_pdf = Num(1)) <=> WellFormedPdfLinks(books[b].pdf_links)

\* a row was rewritten with a blob by one request, and another request's
\* reconcile write failed at the store
C1_Witness ==
    \E p \in Procs, b \in DOMAIN books :
       /\ IsBookDetails(p) /\ book_id[p] = b /\ UpdatesOf(p) # {}
       /\ books[b].pdf_links = JsonDumps(PdfA) /\ books[b].has_pdf = Num(1)
       /\ \E i \in UpdatesOf(p) : log[p][i].stmt.sql = SqlClearPdf /\ ~log[p][i].ok

\* C2 (as claimed): every get_book_details call whose remote fetch succeeded has
\* issued exactly one write statement against the books row of its book_id
\* when it returns, whatever the include argument and the payload's shape.
C2_OneWritePerSuccessfulFetch ==
    \A p \in Procs :
       (IsBookDetails(p) /\ Returned(p) /\ FetchOk(p))
          => Cardinality({i \in UpdatesOf(p) :
                 log[p][i].stmt.params[Len(log[p][i].stmt.params)] = Num(book_id[p])}) = 1

\* C3: the step in which a request's reconcile write succeeds leaves row
\* book_id with the pair derived from the remote response alone, whatever the
\* row held before.
C3_WriteStep(p) ==
    /\ IsBookDetails(p) /\ pc[p] = "write" /\ pc'[p] = "read_book"
    /\ log'[p][Len(log'[p])].ok
    /\ book_id[p] \in DOMAIN books
C3_ReconcileOverwrites ==
    [][\A p \in Procs :
          C3_WriteStep(p) =>
             PdfState(books'[book_id[p]]) = ClaimedPdfState(fetched[p].json)]_vars

\* a successful reconcile write has just replaced a seeded blob by NULL / 0
C3_Witness ==
    \E p \in Procs :
       /\ IsBookDetails(p) /\ pc[p] = "read_book"
       /\ Len(log[p]) = 1 /\ log[p][1].ok
       /\ book_id[p] \in DOMAIN books
       /\ SeedBooks[book_id[p]].has_pdf = Num(1)
       /\ PdfState(books[book_id[p]]) = [pdf_links |-> Null, has_pdf |-> Num(0)]
       /\ ~dirty[p]

\* C4: whatever the kind of remote failure, get_book_details issues no
\* statement against the local store, leaves the store unchanged and returns
\* an error object without enrichment fields.
C4_RemoteFailureShortCircuits ==
    [][\A p \in Procs :
          (IsBookDetails(p) /\ pc'[p] = "done" /\ fetched'[p].kind # "ok" /\ op'[p] = op[p])
             => /\ log'[p] = <<>>
                /\ Keys(api_result'[p]) = {"error", "details"}
                /\ (pc[p] = "fetch" => <<books, authors, cats>>' = <<books, authors, cats>>)]_vars

\* a request has returned after the remote was unreachable
C4_Witness ==
    \E p \in Procs :
       /\ IsBookDetails(p) /\ Returned(p) /\ fetched[p].kind = "RequestError"
       /\ Has(api_result[p], "error")

C6_StoreDownDegrades ==
    \A p \in Procs :
       (/\ IsBookDetails(p) /\ Returned(p) /\ FetchOk(p)
        /\ \A i \in DOMAIN log[p] : ~log[p][i].ok)
          => /\ \A key \in Keys(fetched[p].json) :
                   Has(api_result[p], key) /\ Get(api_result[p], key) = Get(fetched[p].json, key)
             /\ Has(api_result[p], "local_db_status")
             /\ ~Has(api_result[p], "error")

\* a request has returned after its reconcile write and its book read both failed
C6_Witness ==
    \E p \in Procs :
       /\ IsBookDetails(p) /\ Returned(p) /\ FetchOk(p)
       /\ Len(log[p]) = 2 /\ ~log[p][1].ok /\ ~log[p][2].ok
       /\ Has(api_result[p], "meta")

\* C9: within one request the reconcile write comes first and is complete
\* before the enrichment read is issued; when the write succeeded and no other
\* request wrote that id in between, the local_pdf_links returned is the value
\* the request wrote.
WrittenPdfLinks(stmt) == IF stmt.sql = SqlUpdatePdf THEN stmt.params[1] ELSE Null
C9_WriteThenRead ==
    \A p \in Procs :
       IsBookDetails(p) =>
          /\ \A i \in UpdatesOf(p) : i = 1
          /\ (pc[p] = "write" => log[p] = <<>>)
          /\ (/\ Returned(p) /\ UpdatesOf(p) # {} /\ log[p][1].ok /\ ~raced[p]
              /\ Has(api_result[p], "local_pdf_links"))
                => Get(api_result[p], "local_pdf_links") = WrittenPdfLinks(log[p][1].stmt)

\* a request returned the blob it wrote while another request for the same id
\* was in flight
C9_Witness ==
    \E p \in Procs, q \in Procs :
       /\ p # q /\ IsBookDetails(p) /\ Returned(p) /\ ~raced[p]
       /\ UpdatesOf(p) # {} /\ log[p][1].ok
       /\ Get(api_result[p], "local_pdf_links") = JsonDumps(PdfA)
       /\ IsBookDetails(q) /\ InFlight(q) /\ book_id[q] = book_id[p]

\* C10 (as claimed): once overlapping get_book_details requests for the same
\* book id that received the same remote response have all returned, with no
\* store failure and no request with another response writing that id, the
\* row holds the pair derived from that response and each request returned
\* that pdf_links as local_pdf_links.
NoStoreFailure(p) == \A i \in DOMAIN log[p] : log[p][i].ok
C10_SameResponseConverges ==
    \A p \in Procs, q \in Procs :
       (/\ <<p, q>> \in overlap
        /\ IsBookDetails(p) /\ IsBookDetails(q) /\ Returned(p) /\ Returned(q)
        /\ FetchOk(p) /\ fetched[p] = fetched[q] /\ book_id[p] = book_id[q]
        /\ book_id[p] \in DOMAIN books
        /\ ~dirty[p] /\ ~dirty[q] /\ NoStoreFailure(p) /\ NoStoreFailure(q))
          => /\ PdfState(books[book_id[p]]) = ClaimedPdfState(fetched[p].json)
             /\ Get(api_result[p], "local_pdf_links")
                   = ClaimedPdfState(fetched[p].json).pdf_links

\* C7 (as claimed): every response that reports a failure, whatever the
\* operation, carries both an error key and a details key.
C7_FailuresCarryErrorAndDetails ==
    \A p \in Procs :
       (Returned(p) /\ Has(api_result[p], "error")) => Has(api_result[p], "details")

\* C8: no row of books, authors or cats is created or deleted; no column but
\* books.pdf_links and books.has_pdf changes; those two change only in the
\* reconcile write of a get_book_details call whose remote fetch succeeded,
\* and only in the row of its book_id; a step of any other operation leaves
\* the store as it was.
Acted(p) ==
    <<pc[p], op[p], book_id[p], params[p], api_result[p], book_info[p], log[p]>>'
       # <<pc[p], op[p], book_id[p], params[p], api_result[p], book_info[p], log[p]>>
C8_OnlyReconcileChangesStore ==
    [][/\ DOMAIN books' = DOMAIN books
       /\ authors' = authors
       /\ cats' = cats
       /\ \A b \in DOMAIN books :
             books'[b] # books[b] =>
                /\ [books'[b] EXCEPT !.pdf_links = books[b].pdf_links,
                                     !.has_pdf = books[b].has_pdf] = books[b]
                /\ \E p \in Procs :
                      /\ IsBookDetails(p) /\ pc[p] = "write" /\ Acted(p)
                      /\ FetchOk(p) /\ book_id[p] = b
       /\ \A p \in Procs :
             (Acted(p) /\ op'[p] # "get_book_details") => books' = books]_vars

\* a search has read a row that a get_book_details call rewrote, the other
\* rows being as seeded
C8_Witness ==
    \E p \in Procs, b \in DOMAIN books :
       /\ op[p] = "search_library" /\ Returned(p)
       /\ \E i \in DOMAIN log[p] : log[p][i].ok /\ log[p][i].stmt.params[1] = Num(b)
       /\ PdfState(books[b]) = [pdf_links |-> JsonDumps(PdfA), has_pdf |-> Num(1)]
       /\ \A c \in DOMAIN books \ {b} : books[c] = SeedBooks[c]

\* ------------------------------------------------------------------ C11
GatewayReturned(t) == line[t] = "returned"
GatewayInFlight(t) == ~GatewayIdle(t)
HoldsConn(t) == GatewayInFlight(t) /\ conn[t] # NoConn
NoSharedConn ==
    /\ \A t \in Procs : \A u \in Procs \ {t} :
          HoldsConn(t) => conn[t] # conn[u]
    /\ open_conns = {conn[t] : t \in {u \in Procs : HoldsConn(u)}}
    /\ (\A t \in Procs : GatewayIdle(t)) => open_conns = {}
ReleasedOnReturn(t) ==
    /\ conn[t] \notin open_conns
    /\ raised_at[t] # "" => gw_results[t] = QueryNone

\* C11 as stated: every returned gateway call opened exactly one connection,
\* executed exactly one statement and has released its connection, on the
\* success path and on the error path (where it returned None); connections
\* are never shared between calls in flight and none is open when no call is
\* in flight.
C11_ExactlyOneConnectionOneStatement ==
    /\ \A t \in Procs :
          GatewayReturned(t) =>
             /\ connected[t] = 1
             /\ execute_calls[t] = 1
             /\ ReleasedOnReturn(t)
    /\ NoSharedConn

\* C11 amended: a gateway call opens at most one connection and executes at
\* most one statement; a returned call opened exactly one connection and
\* executed exactly one statement unless sqlite3.connect itself failed, in which
\* case it opened none and executed none; on every path the connection it
\* opened is released when it returns and a store error is returned as None;
\* connections are never shared between calls in flight and none is open when
\* no call is in flight.
C11_AtMostOneConnectionOneStatement ==
    /\ \A t \in Procs :
          /\ connected[t] <= 1
          /\ execute_calls[t] <= 1
          /\ GatewayReturned(t) =>
                /\ IF raised_at[t] = "connect"
                   THEN connected[t] = 0 /\ execute_calls[t] = 0
                   ELSE connected[t] = 1 /\ execute_calls[t] = 1
                /\ ReleasedOnReturn(t)
    /\ NoSharedConn
\* a call that returned None after its statement failed on an open connection,
\* while another call holds a connection of its own
C11_Witness ==
    \E t \in Procs : \E u \in Procs \ {t} :
       /\ GatewayReturned(t)
       /\ raised_at[t] = "execute"
       /\ connected[t] = 1
       /\ HoldsConn(u)
       /\ conn[u] \in open_conns

\* ------------------------------------------------------------------ C12
IsSearch(p) == op[p] = "search_library"
DataOf(result) == Get(result, "data").v
HasBookId(item) == Truthy(ObjGet(item, "book_id"))
AnnotationKeys ==
    {"local_book_name", "local_author_name", "local_category_name", "local_pdf_links",
     "local_info_long", "local_db_status", "reference_info"}
\* the enrichment step of p ends with a failed statement
C12_FailedStep(p) ==
    /\ IsSearch(p) /\ pc[p] = "enrich" /\ pc'[p] = "done"
    /\ log'[p] # <<>>
    /\ ~log'[p][Len(log'[p])].ok
\* the item the failed statement was issued for: statements are issued for the
\* items that carry a book_id, in order
FailedItem(data_list, statements) ==
    CHOOSE i \in DOMAIN data_list :
       /\ HasBookId(data_list[i])
       /\ Cardinality({j \in 1..i : HasBookId(data_list[j])}) = Len(statements)

\* C12: when the store fails while item k of a search result is enriched, the
\* items before k carry their annotations and reference_info, item k and the
\* later items are as the remote sent them, and the response is the remote
\* result with exactly one enrichment_error entry and no error entry.
C12_BatchStopsAtFailure ==
    [][\A p \in Procs :
          C12_FailedStep(p) =>
             LET old == DataOf(api_result[p])
                 new == DataOf(api_result'[p])
                 k == FailedItem(old, log'[p])
             IN /\ Len(new) = Len(old)
                /\ \A i \in 1..(k - 1) :
                      /\ new[i] = EnrichItem(old[i], books, authors, cats).item
                      /\ Has(new[i].v, "reference_info")
                      /\ HasBookId(old[i]) =>
                            \/ Has(new[i].v, "local_book_name")
                            \/ Has(new[i].v, "local_db_status")
                      /\ \A key \in Keys(old[i].v) : Get(new[i].v, key) = Get(old[i].v, key)
                /\ \A i \in k..Len(old) :
                      /\ new[i] = old[i]
                      /\ Keys(new[i].v) \cap AnnotationKeys = {}
                /\ Keys(api_result'[p]) = Keys(api_result[p]) \cup {"enrichment_error"}
                /\ ~Has(api_result'[p], "error")
                /\ Cardinality({i \in DOMAIN api_result'[p] :
                                   api_result'[p][i].k = "enrichment_error"}) = 1
                /\ Get(api_result'[p], "enrichment_error").kind = "str"
                /\ \A key \in Keys(api_result[p]) \ {"data"} :
                      Get(api_result'[p], key) = Get(api_result[p], key)]_vars
\* a returned search whose first item was enriched with a local match and
\* whose second item hit the store failure
C12_Witness ==
    \E p \in Procs :
       /\ IsSearch(p) /\ Returned(p)
       /\ Has(api_result[p], "enrichment_error")
       /\ Len(log[p]) = 2 /\ ~log[p][2].ok
       /\ Len(DataOf(api_result[p])) = 2
       /\ Has(DataOf(api_result[p])[1].v, "local_book_name")
       /\ Has(DataOf(api_result[p])[1].v, "reference_info")
       /\ ~Has(DataOf(api_result[p])[2].v, "reference_info")

\* ------------------------------------------------------------------ C13
RemoteDataIsList(p) ==
    /\ FetchOk(p)
    /\ Has(fetched[p].json, "data")
    /\ Get(fetched[p].json, "data").kind = "list"

\* C13: whatever the shape of an item's meta (absent, unparseable, JSON that is
\* not an object, already an object, an object without the expected keys), a
\* returned search whose remote request succeeded is the remote result, not an
\* error object, and unless the store failed every item carries reference_info.
C13_MetaNeverRaises ==
    \A p \in Procs :
       (IsSearch(p) /\ Returned(p) /\ RemoteDataIsList(p)) =>
          /\ ~Has(api_result[p], "error")
          /\ Has(api_result[p], "data")
          /\ ~Has(api_result[p], "enrichment_error") =>
                \A i \in DOMAIN DataOf(api_result[p]) :
                   Has(DataOf(api_result[p])[i].v, "reference_info")

\* ------------------------------------------------------------------ C14
\* the items of the searches that returned the remote result
ReturnedItems ==
    UNION {{DataOf(api_result[p])[i] : i \in DOMAIN DataOf(api_result[p])} :
           p \in {q \in Procs : /\ IsSearch(q) /\ Returned(q) /\ RemoteDataIsList(q)
                                /\ ~Has(api_result[q], "error")}}
ReferencedItems == {item \in ReturnedItems : Has(item.v, "reference_info")}
\* the object an item's meta decodes to, Null when there is none
MetaObject(item) ==
    IF ObjGet(item, "meta").kind = "text"
    THEN CHOOSE out \in {IF parsed.ok /\ IsDict(parsed.val) THEN parsed.val ELSE Null :
                         parsed \in {JsonLoads(ObjGet(item, "meta"))}} : TRUE
    ELSE Null
MetaField(item, key) ==
    IF MetaObject(item) = Null THEN Null ELSE ObjGet(MetaObject(item), key)
FirstTruthy(x, y) == IF Truthy(x) THEN x ELSE y
PartLabels == <<"Kitab: ", "Penulis: ", "Kategori: ", "Jilid: ", "Halaman: ", "Link: ">>
\* the data of the n-th part of an item as the response shows it: the
\* fragments after the label, <<>> when the part has no data
PartData(item, n) ==
    CASE n = 1 -> LET x == FirstTruthy(ObjGet(item, "local_book_name"),
                                        MetaField(item, "book_name"))
                  IN IF Truthy(x) THEN <<x>> ELSE <<>>
      [] n = 2 -> LET x == FirstTruthy(ObjGet(item, "local_author_name"),
                                        MetaField(item, "author_name"))
                  IN IF Truthy(x) THEN <<x>> ELSE <<>>
      [] n = 3 -> IF Truthy(ObjGet(item, "local_category_name"))
                  THEN <<ObjGet(item, "local_category_name")>> ELSE <<>>
      [] n = 4 -> IF Truthy(MetaField(item, "vol")) THEN <<MetaField(item, "vol")>> ELSE <<>>
      [] n = 5 -> IF Truthy(MetaField(item, "page")) THEN <<MetaField(item, "page")>> ELSE <<>>
      [] OTHER -> IF ~HasBookId(item) THEN <<>>
                  ELSE <<Str("https://shamela.ws"), Str("/book/"), ObjGet(item, "book_id")>>
                       \o (IF Truthy(MetaField(item, "page_id"))
                           THEN <<Str("/"), MetaField(item, "page_id")>> ELSE <<>>)
NonEmptyParts(item) == {n \in DOMAIN PartLabels : PartData(item, n) # <<>>}
\* "Sumber: " and the non-empty parts from the n-th on, in the fixed order,
\* each but the first one written preceded by ", "
RECURSIVE OrderedParts(_, _)
OrderedParts(item, n) ==
    IF n > Len(PartLabels) THEN <<>>
    ELSE IF n \notin NonEmptyParts(item) THEN OrderedParts(item, n + 1)
    ELSE (IF \E m \in NonEmptyParts(item) : m < n THEN <<Str(", ")>> ELSE <<>>)
         \o <<Str(PartLabels[n])>> \o PartData(item, n) \o OrderedParts(item, n + 1)
\* Scenario D: book name known locally, no author or category, vol 2, page 15,
\* page_id 99
ScenarioD(item) ==
    /\ ObjGet(item, "book_id") = Num(1)
    /\ ObjGet(item, "meta") = MetaPageDoc
    /\ ObjGet(item, "local_book_name") = Str("local book")
ScenarioDReference ==
    Fmt(<<Str("Sumber: "), Str("Kitab: "), Str("local book"), Str(", "),
          Str("Jilid: "), Num(2), Str(", "), Str("Halaman: "), Num(15), Str(", "),
          Str("Link: "), Str("https://shamela.ws"), Str("/book/"), Num(1), Str("/"), Num(99)>>)

\* C14: the reference_info of every enriched item that has at least one part
\* is "Sumber: " followed by its non-empty parts joined by ", " in the order
\* Kitab, Penulis, Kategori, Jilid, Halaman, Link; in Scenario D it is
\* "Sumber: Kitab: <name>, Jilid: 2, Halaman: 15, Link: <base>/book/<id>/99".
C14_PartsInFixedOrder ==
    \A item \in ReferencedItems :
       /\ NonEmptyParts(item) # {} =>
             ObjGet(item, "reference_info") =
                Fmt(<<Str("Sumber: ")>> \o OrderedParts(item, 1))
       /\ ScenarioD(item) => ObjGet(item, "reference_info") = ScenarioDReference
\* a returned search with the item of Scenario D and an item that has the
\* parts Kitab, Penulis, Kategori and Link but neither Jilid nor Halaman
C14_Witness ==
    /\ \E item \in ReferencedItems :
          ScenarioD(item) /\ ObjGet(item, "reference_info") = ScenarioDReference
    /\ \E item \in ReferencedItems : NonEmptyParts(item) = {1, 2, 3, 6}

\* ------------------------------------------------------------------ C15
NoLocalMatch(item) == ~Has(item.v, "local_book_name")
UnparseableMeta(item) ==
    /\ ObjGet(item, "meta").kind = "text"
    /\ Truthy(ObjGet(item, "meta"))
    /\ ~JsonLoads(ObjGet(item, "meta")).ok
ScenarioE(item) == NoLocalMatch(item) /\ UnparseableMeta(item)
BookLink(item) ==
    <<Str("Link: "), Str("https://shamela.ws"), Str("/book/"), ObjGet(item, "book_id")>>
PlaceholderAlone == Fmt(<<Str("Sumber: "), Placeholder>>)

\* C15 as stated: an item with no local match and an unparseable meta gets a
\* reference made of the placeholder and the book-level link when it has a
\* book_id, and the placeholder alone when it has none.
C15_PlaceholderPlusLink ==
    \A item \in ReferencedItems :
       ScenarioE(item) =>
          LET ref == ObjGet(item, "reference_info").v IN
          IF HasBookId(item)
          THEN /\ \E i \in DOMAIN ref : ref[i] = Placeholder
               /\ Len(ref) > Len(BookLink(item))
               /\ SubSeq(ref, Len(ref) - Len(BookLink(item)) + 1, Len(ref)) = BookLink(item)
          ELSE Fmt(ref) = PlaceholderAlone

\* C15 amended: an item with no local match and an unparseable meta gets
\* "Sumber: " followed by the book-level link alone, without the placeholder,
\* when it has a book_id, and "Sumber: " followed by the placeholder alone when
\* it has none.
C15_LinkAloneOrPlaceholderAlone ==
    \A item \in ReferencedItems :
       ScenarioE(item) =>
          ObjGet(item, "reference_info") =
             IF HasBookId(item)
             THEN Fmt(<<Str("Sumber: ")>> \o BookLink(item))
             ELSE PlaceholderAlone
\* one returned search with both items of Scenario E: with a book_id that has
\* no local row, and without a book_id
C15_Witness ==
    /\ \E item \in ReferencedItems :
          ScenarioE(item) /\ HasBookId(item) /\ Has(item.v, "local_db_status")
    /\ \E item \in ReferencedItems : ScenarioE(item) /\ ~HasBookId(item)

\* ------------------------------------------------------------------ C16
Fragments(item) == {ObjGet(item, "reference_info").v[i] :
                      i \in DOMAIN ObjGet(item, "reference_info").v}
HasPlaceholder(item) == Placeholder \in Fragments(item)
HasRealPart(item) == \E n \in DOMAIN PartLabels : Str(PartLabels[n]) \in Fragments(item)

\* C16: the placeholder is in an item's reference_info exactly when none of the
\* six parts Kitab, Penulis, Kategori, Jilid, Halaman, Link has data for the
\* item, and a reference_info never holds the placeholder together with a part.
C16_PlaceholderIffNoParts ==
    \A item \in ReferencedItems :
       /\ HasPlaceholder(item) <=> NonEmptyParts(item) = {}
       /\ HasPlaceholder(item) <=> ~HasRealPart(item)
       /\ HasPlaceholder(item) => ObjGet(item, "reference_info") = PlaceholderAlone
\* a returned search with an item that has no part at all (no book_id, meta an
\* empty object) next to an item with parts
C16_Witness ==
    /\ \E item \in ReferencedItems :
          /\ HasPlaceholder(item)
          /\ ObjGet(item, "meta") = MetaEmptyDoc
    /\ \E item \in ReferencedItems : HasRealPart(item) /\ ~HasPlaceholder(item)

\* ------------------------------------------------------------------ C17
\* an item reduced to what the reference is composed from: book_id and meta
ComposerInput(item) ==
    (IF Has(item.v, "book_id") THEN <<Entry("book_id", ObjGet(item, "book_id"))>> ELSE <<>>)
    \o (IF Has(item.v, "meta") THEN <<Entry("meta", ObjGet(item, "meta"))>> ELSE <<>>)
\* the reference a run on that input alone produces over the same store
ReferenceAlone(item) ==
    ObjGet(EnrichItem(Obj(ComposerInput(item)), books, authors, cats).item, "reference_info")

IsFilterIds(p) == op[p] = "get_filter_ids"
\* the statements of p for one of the two tables: one per supplied name
LikeStatements(p, sql) == SelectSeq(log[p], LAMBDA e : e.stmt.sql = sql)
\* the ids of the rows of a table that match the supplied name, in id order,
\* <<>> when no name was supplied or the query failed
MatchingIds(p, sql, table) ==
    IF LikeStatements(p, sql) = <<>> \/ ~LikeStatements(p, sql)[1].ok THEN <<>>
    ELSE ById({r \in DOMAIN table :
                 Like(LikeStatements(p, sql)[1].stmt.params[1], table[r].name)})
RECURSIVE CommaJoined(_)
CommaJoined(ids) ==
    IF Len(ids) = 0 THEN <<>>
    ELSE IF Len(ids) = 1 THEN StrOfInt(ids[1])
    ELSE StrOfInt(ids[1]) \o <<",">> \o CommaJoined(Tail(ids))
IdsOrNone(ids) == IF ids = <<>> THEN Null ELSE Chars(CommaJoined(ids))

\* C18: a returned get_filter_ids is {category_ids, author_ids}, each the
\* comma-joined ids of the rows matching the supplied name and None when the
\* name was not supplied, matched nothing or its query failed, as soon as one
\* of the two is not None; otherwise it is the "no ids found" message alone.
C18_FilterIdsShape ==
    \A p \in Procs :
       (IsFilterIds(p) /\ Returned(p)) =>
          LET cat_ids == MatchingIds(p, SqlLikeCats, cats)
              author_ids == MatchingIds(p, SqlLikeAuthors, authors)
          IN IF cat_ids # <<>> \/ author_ids # <<>>
             THEN api_result[p] = <<Entry("category_ids", IdsOrNone(cat_ids)),
                                    Entry("author_ids", IdsOrNone(author_ids))>>
             ELSE api_result[p] = NoIdsFound
\* category "f" matched rows 1 and 3 while the author query failed
C18_Witness ==
    \E p \in Procs :
       /\ IsFilterIds(p) /\ Returned(p)
       /\ Len(log[p]) = 2 /\ log[p][1].ok /\ ~log[p][2].ok
       /\ api_result[p] = <<Entry("category_ids", Chars(<<"1", ",", "3">>)),
                            Entry("author_ids", Null)>>

\* ------------------------------------------------------------------ C19
RemotePath(name) ==
    CASE name = "get_book_details" -> <<"/book">>
      [] name = "get_page_content" -> <<"/page">>
      [] name = "search_library" -> <<"/search">>
      [] name = "get_author_bio" -> <<"/author">>
      [] OTHER -> <<>>

\* C19: a returned get_book_details, get_page_content, search_library or
\* get_author_bio call has sent exactly one remote request, to its own
\* endpoint, whether the request succeeded or failed; a returned
\* get_filter_ids, list_all_categories or list_all_authors call has sent none;
\* no call in flight has sent more than one.
C19_OneRequestNoRetry ==
    \A p \in Procs :
       /\ Len(sent[p]) <= 1
       /\ Returned(p) => sent[p] = RemotePath(op[p])
\* a get_book_details call whose single request failed has returned next to
\* one whose single request succeeded
C19_Witness ==
    \E p \in Procs :
       /\ IsBookDetails(p) /\ Returned(p)
       /\ ~FetchOk(p) /\ sent[p] = <<"/book">>
       /\ \E q \in Procs \ {p} :
             /\ IsBookDetails(q) /\ Returned(q)
             /\ FetchOk(q) /\ sent[q] = <<"/book">>

\* ------------------------------------------------------------------ C20
\* p's reconcile write has just failed at the store, p not being cancelled
C20_FailedWriteStep(p) ==
    /\ IsBookDetails(p) /\ pc[p] = "write" /\ pc'[p] \notin {"write", "cancelled"}
    /\ ~log'[p][Len(log'[p])].ok
WriteFailed(p) ==
    /\ IsBookDetails(p) /\ FetchOk(p)
    /\ log[p] # <<>> /\ IsUpdate(log[p][1].stmt) /\ ~log[p][1].ok

\* C20: when the reconcile write of a get_book_details call fails at the store
\* after a successful fetch, the step leaves the store as it was and the call
\* goes on to the enrichment read; the returned response carries every field
\* of the remote payload and no error key.
C20_FailedWriteDoesNotFail ==
    /\ [][\A p \in Procs :
             C20_FailedWriteStep(p) =>
                /\ books' = books /\ authors' = authors /\ cats' = cats
                /\ pc'[p] = "read_book"]_vars
    /\ [](\A p \in Procs :
             (WriteFailed(p) /\ Returned(p)) =>
                /\ Len(log[p]) >= 2
                /\ log[p][2].stmt = Statement(SqlSelectBook, <<Num(book_id[p])>>)
                /\ \A key \in Keys(fetched[p].json) :
                      /\ Has(api_result[p], key)
                      /\ Get(api_result[p], key) = Get(fetched[p].json, key)
                /\ ~Has(api_result[p], "error"))
\* a call returned after its write failed and its read succeeded: the row still
\* holds the seeded blob, which the response reports, although the remote
\* payload carries no pdf_links
C20_Witness ==
    \E p \in Procs :
       /\ WriteFailed(p) /\ Returned(p)
       /\ log[p][1].stmt.sql = SqlClearPdf
       /\ Len(log[p]) = 2 /\ log[p][2].ok
       /\ books[book_id[p]] = SeedBooks[book_id[p]]
       /\ Get(api_result[p], "local_pdf_links") = JsonDumps(PdfOld)

\* ------------------------------------------------------------------ C21
\* p returned a local_pdf_links that is not the value its own write stored
ForeignPdfLinks(p) ==
    /\ IsBookDetails(p) /\ Returned(p) /\ FetchOk(p)
    /\ UpdatesOf(p) # {} /\ log[p][1].ok
    /\ Has(api_result[p], "local_pdf_links")
    /\ Get(api_result[p], "local_pdf_links") # WrittenPdfLinks(log[p][1].stmt)
\* the values a reconcile write for book b stores from a payload other than own
OtherWrites(b, own) ==
    {WrittenPdfLinks(ReconcileStatement(j, b)[1]) :
        j \in {k \in BookPayloads(b, ScopeMetas) \ {own} : ReconcileStatement(k, b) # <<>>}}

\* C21: a get_book_details request can return a local_pdf_links that differs
\* from what its own successful write stored; whenever it does, the write of
\* another request for the same id ran between its write and its read, and the
\* value returned is the one a write derived from another remote response
\* stores, not the one of the meta.pdf_links of its own payload.
C21_StaleReadOnlyByInterleaving ==
    \A p \in Procs :
       ForeignPdfLinks(p) =>
          /\ raced[p]
          /\ Get(api_result[p], "local_pdf_links") \in OtherWrites(book_id[p], fetched[p].json)
          /\ Get(api_result[p], "local_pdf_links")
                # ClaimedPdfState(fetched[p].json).pdf_links
\* a request whose payload carries files and a root returned local_pdf_links
\* None: the clearing write of the other request fell between its write and
\* its read
C21_Witness ==
    \E p \in Procs :
       /\ ForeignPdfLinks(p)
       /\ log[p][1].stmt.sql = SqlUpdatePdf
       /\ Get(api_result[p], "local_pdf_links") = Null
       /\ ObjGet(Get(api_result[p], "meta"), "pdf_links") = PdfA

\* ------------------------------------------------------------------ C22
StatementRank(sql) ==
    CASE sql = SqlUpdatePdf -> 1
      [] sql = SqlClearPdf -> 1
      [] sql = SqlSelectBook -> 2
      [] sql = SqlSelectAuthor -> 3
      [] sql = SqlSelectCat -> 4
      [] OTHER -> 0
Issued(p, rank) == \E i \in DOMAIN log[p] : StatementRank(log[p][i].stmt.sql) = rank
BookFound(p) == book_info[p] # <<>>
LocalBookKeys ==
    {"local_book_name", "local_pdf_links", "local_info_long", "local_printed",
     "local_size_mb", "local_author_name", "local_author_death", "local_category_name"}

\* C22: the store statements of a get_book_details call are issued one per
\* step and in the order reconcile write, book read, author read, category
\* read; in a returned call whose fetch succeeded the book read was issued,
\* the author read was issued only when the book row was found with a
\* non-null author_id and the category read only when it was found with a
\* non-null cat_id, and each was issued whenever that key is neither null nor
\* 0; when the row was not found neither was issued and the
\* response has local_db_status and none of the local_* fields.
C22_StatementOrder ==
    /\ [](\A p \in Procs :
             IsBookDetails(p) =>
                /\ \A i \in DOMAIN log[p] : \A j \in DOMAIN log[p] :
                      i < j => /\ StatementRank(log[p][i].stmt.sql) > 0
                               /\ StatementRank(log[p][i].stmt.sql)
                                     < StatementRank(log[p][j].stmt.sql)
                /\ (Returned(p) /\ FetchOk(p)) =>
                      /\ Issued(p, 2)
                      /\ ReconcileStatement(fetched[p].json, book_id[p]) # <<>> => Issued(p, 1)
                      /\ Issued(p, 3) => (BookFound(p) /\ book_info[p][2] # Null)
                      /\ Issued(p, 4) => (BookFound(p) /\ book_info[p][3] # Null)
                      /\ (BookFound(p) /\ Truthy(book_info[p][2])) => Issued(p, 3)
                      /\ (BookFound(p) /\ Truthy(book_info[p][3])) => Issued(p, 4)
                      /\ BookFound(p) =>
                            /\ ~Has(api_result[p], "local_db_status")
                            /\ Has(api_result[p], "local_book_name")
                      /\ ~BookFound(p) =>
                            /\ Has(api_result[p], "local_db_status")
                            /\ Keys(api_result[p]) \cap LocalBookKeys = {})
    /\ [][\A p \in Procs :
             (IsBookDetails(p) /\ op'[p] = op[p] /\ log'[p] # log[p]) =>
                \/ log'[p] = <<>>
                \/ /\ Len(log'[p]) = Len(log[p]) + 1
                   /\ SubSeq(log'[p], 1, Len(log[p])) = log[p]]_vars
\* a call that issued all four statements, each succeeding, has returned
C22_Witness ==
    \E p \in Procs :
       /\ IsBookDetails(p) /\ Returned(p) /\ FetchOk(p)
       /\ Len(log[p]) = 4 /\ NoStoreFailure(p)
       /\ IsUpdate(log[p][1].stmt)
       /\ Has(api_result[p], "local_author_name")
       /\ Has(api_result[p], "local_category_name")

\* ------------------------------------------------------------------ C23
\* p's call went through the batch enrichment and has returned
Enriched(p) == IsSearch(p) /\ Returned(p) /\ RemoteDataIsList(p)
RemoteItems(p) == Get(fetched[p].json, "data").v
ReadOf(item) == Statement(SqlSelectJoin, <<ObjGet(item, "book_id")>>)
\* the reads of a batch that runs to its end: one per item with a book_id
ReadsFor(items) ==
    LET with_id == SelectSeq(items, LAMBDA item : HasBookId(item))
    IN [i \in DOMAIN with_id |-> ReadOf(with_id[i])]
StatementsOf(p) == [i \in DOMAIN log[p] |-> log[p][i].stmt]
NoWriteByBatch(p) == \A i \in DOMAIN log[p] : log[p][i].stmt.sql = SqlSelectJoin
CompletedBatch(p) ==
    /\ Enriched(p)
    /\ ~Has(api_result[p], "error")
    /\ ~Has(api_result[p], "enrichment_error")

\* C23 as stated: a batch enrichment that has returned opened exactly one
\* connection, issued exactly one read for each item with a book_id and none
\* for the others, issued no write, and has closed its connection, on normal
\* completion and after a store failure.
C23_OneConnectionOneReadPerItem ==
    \A p \in Procs :
       Enriched(p) =>
          /\ enrich_conn[p].opened = 1
          /\ enrich_conn[p].open = {}
          /\ StatementsOf(p) = ReadsFor(RemoteItems(p))
          /\ NoWriteByBatch(p)

\* C23 amended: a batch enrichment that has returned opened at most one
\* connection and left none open; it issued no write; its reads are, in item
\* order, the reads of the items with a book_id up to the point where the batch
\* ended, at most one per item; a batch that ran to its end opened exactly one
\* connection and issued exactly one read for each item with a book_id and
\* none for the others.
C23_OneConnectionReadsUpToFailure ==
    \A p \in Procs :
       Enriched(p) =>
          /\ enrich_conn[p].opened <= 1
          /\ enrich_conn[p].open = {}
          /\ NoWriteByBatch(p)
          /\ Len(log[p]) <= Len(ReadsFor(RemoteItems(p)))
          /\ StatementsOf(p) = SubSeq(ReadsFor(RemoteItems(p)), 1, Len(log[p]))
          /\ enrich_conn[p].opened = 0 => log[p] = <<>>
          /\ CompletedBatch(p) =>
                /\ enrich_conn[p].opened = 1
                /\ StatementsOf(p) = ReadsFor(RemoteItems(p))
                /\ NoStoreFailure(p)
\* a batch of one item with a book_id and one without ran to its end, with one
\* connection and one read
C23_Witness ==
    \E p \in Procs :
       /\ CompletedBatch(p)
       /\ Len(RemoteItems(p)) = 2
       /\ HasBookId(RemoteItems(p)[1]) /\ ~HasBookId(RemoteItems(p)[2])
       /\ Len(log[p]) = 1 /\ log[p][1].ok
       /\ enrich_conn[p] = [opened |-> 1, open |-> {}]

\* ------------------------------------------------------------------ C24
\* p's request is cancelled while its reconcile write runs
C24_CancelStep(p) ==
    IsBookDetails(p) /\ pc[p] = "write" /\ pc'[p] = "cancelled"
Cancelled(p) == IsBookDetails(p) /\ pc[p] = "cancelled"

\* C24: when a get_book_details request is cancelled while its reconcile write
\* runs on a worker thread, the write runs to its end: the statement is issued
\* and, unless the store fails it, the row of the request's book id (if the
\* store has one) holds the values the statement carries; the request keeps the response it had (nothing
\* of the write reaches it), the write is the only statement it ever issued,
\* and it never returns: its slot's next step is a new call.
C24_CancelledWriteCompletes ==
    /\ [][\A p \in Procs :
             C24_CancelStep(p) =>
                LET stmt == ReconcileStatement(api_result[p], book_id[p])[1]
                    b == book_id[p]
                IN /\ Len(log'[p]) = 1 /\ log'[p][1].stmt = stmt
                   /\ (log'[p][1].ok /\ b \in DOMAIN books) =>
                         /\ books'[b].pdf_links = WrittenPdfLinks(stmt)
                         /\ books'[b].has_pdf =
                               (IF stmt.sql = SqlUpdatePdf THEN Num(1) ELSE Num(0))
                   /\ (~log'[p][1].ok \/ b \notin DOMAIN books) => books' = books
                   /\ api_result'[p] = api_result[p]
                   /\ book_info'[p] = book_info[p]]_vars
    /\ [][\A p \in Procs :
             (Cancelled(p) /\ Acted(p)) =>
                /\ pc'[p] \in {"fetch", "done"}
                /\ pc'[p] = "fetch" => log'[p] = <<>>
                /\ pc'[p] = "done" => op'[p] # "get_book_details"
                /\ books' = books]_vars
    /\ [](\A p \in Procs :
             Cancelled(p) =>
                /\ ~Returned(p)
                /\ Len(log[p]) = 1 /\ IsUpdate(log[p][1].stmt)
                /\ ~Has(api_result[p], "local_book_name")
                /\ ~Has(api_result[p], "local_db_status"))
\* a cancelled request whose write stored a new blob in the row, while another
\* request for the same book was in flight
C24_Witness ==
    \E p \in Procs :
       /\ Cancelled(p) /\ log[p][1].ok
       /\ log[p][1].stmt.sql = SqlUpdatePdf
       /\ book_id[p] \in DOMAIN books
       /\ books[book_id[p]].pdf_links = log[p][1].stmt.params[1]
       /\ books[book_id[p]] # SeedBooks[book_id[p]]
       /\ \E q \in Procs \ {p} : IsBookDetails(q) /\ InFlight(q)

\* ------------------------------------------------------------------ C25
\* the data an item's reference_info shows after a label, Null when the
\* reference has no such part
ShownAfter(item, label) ==
    LET ref == ObjGet(item, "reference_info").v
        at == {i \in DOMAIN ref : ref[i] = Str(label)}
    IN IF at = {} THEN Null ELSE ref[(CHOOSE i \in at : TRUE) + 1]
TruthyOrNull(x) == IF Truthy(x) THEN x ELSE Null

\* C25: in the reference of every enriched item, the Kitab part shows
\* local_book_name whenever the item has one and meta book_name (if any)
\* only otherwise; the Penulis part likewise shows local_author_name before
\* meta author_name; the Kategori part shows local_category_name and is absent
\* when the item has none, whatever meta carries.
C25_LocalNameWins ==
    \A item \in ReferencedItems :
       /\ ShownAfter(item, "Kitab: ") =
             IF Truthy(ObjGet(item, "local_book_name"))
             THEN ObjGet(item, "local_book_name")
             ELSE TruthyOrNull(MetaField(item, "book_name"))
       /\ ShownAfter(item, "Penulis: ") =
             IF Truthy(ObjGet(item, "local_author_name"))
             THEN ObjGet(item, "local_author_name")
             ELSE TruthyOrNull(MetaField(item, "author_name"))
       /\ ShownAfter(item, "Kategori: ") =
             TruthyOrNull(ObjGet(item, "local_category_name"))
\* one returned search with an item whose book, author and category names are
\* known both locally and in meta, and an item whose meta names all three
\* while the local join knows the book name only
C25_Witness ==
    /\ \E item \in ReferencedItems :
          /\ Truthy(ObjGet(item, "local_book_name"))
          /\ Truthy(ObjGet(item, "local_author_name"))
          /\ Truthy(ObjGet(item, "local_category_name"))
          /\ Truthy(MetaField(item, "book_name"))
          /\ Truthy(MetaField(item, "author_name"))
          /\ Truthy(MetaField(item, "category_name"))
          /\ MetaField(item, "book_name") # ObjGet(item, "local_book_name")
          /\ MetaField(item, "author_name") # ObjGet(item, "local_author_name")
    /\ \E item \in ReferencedItems :
          /\ Truthy(ObjGet(item, "local_book_name"))
          /\ ~Truthy(ObjGet(item, "local_author_name"))
          /\ ~Truthy(ObjGet(item, "local_category_name"))
          /\ Truthy(MetaField(item, "category_name"))
          /\ ShownAfter(item, "Penulis: ") = MetaField(item, "author_name")
          /\ ShownAfter(item, "Kategori: ") = Null

\* ------------------------------------------------------------------ C26
\* what an item's reference_info shows from the label "Link: " on, <<>> when
\* the reference has no Link part
LinkShown(item) ==
    LET ref == ObjGet(item, "reference_info").v
        at == {i \in DOMAIN ref : ref[i] = Str("Link: ")}
    IN IF at = {} THEN <<>> ELSE SubSeq(ref, CHOOSE i \in at : TRUE, Len(ref))
PageLink(item) ==
    BookLink(item) \o <<Str("/"), MetaField(item, "page_id")>>

\* C26: the reference of every enriched item has a Link part exactly when the
\* item has a book_id; the part is "<base>/book/<book_id>/<page_id>" when the
\* item's meta decodes to an object carrying a page_id, and
\* "<base>/book/<book_id>" otherwise, also when the item has no meta or a meta
\* that does not parse.
C26_LinkIffBookId ==
    \A item \in ReferencedItems :
       LinkShown(item) =
          IF ~HasBookId(item) THEN <<>>
          ELSE IF Truthy(MetaField(item, "page_id")) THEN PageLink(item)
          ELSE BookLink(item)
\* one returned search with an item whose link is page-anchored and an item
\* that has a book_id and a meta that does not parse, whose link is book-level
C26_Witness ==
    /\ \E item \in ReferencedItems :
          HasBookId(item) /\ LinkShown(item) = PageLink(item)
    /\ \E item \in ReferencedItems :
          /\ HasBookId(item) /\ UnparseableMeta(item)
          /\ LinkShown(item) = BookLink(item)

\* ------------------------------------------------------------------ C27
\* the statements a get_filter_ids call with these two names has to issue
NameQueries(category_name, author_name) ==
    (IF Truthy(category_name)
     THEN <<Statement(SqlLikeCats, <<LikeParam(category_name)>>)>> ELSE <<>>)
    \o (IF Truthy(author_name)
        THEN <<Statement(SqlLikeAuthors, <<LikeParam(author_name)>>)>> ELSE <<>>)

\* C27: a returned get_filter_ids has issued one query on cats when a category
\* name was supplied and none otherwise, one query on authors when an author
\* name was supplied and none otherwise, the category query first, whether the
\* category query matched, matched nothing or failed.
C27_OneQueryPerName ==
    \A p \in Procs :
       (IsFilterIds(p) /\ Returned(p)) =>
          LET due == NameQueries(Get(params[p], "category_name"),
                                 Get(params[p], "author_name"))
          IN /\ Len(log[p]) = Len(due)
             /\ \A i \in DOMAIN due : log[p][i].stmt = due[i]
\* both names supplied: the category query matched no row and the author
\* query that followed it found author 1
C27_Witness ==
    \E p \in Procs :
       /\ IsFilterIds(p) /\ Returned(p)
       /\ Truthy(Get(params[p], "category_name"))
       /\ Truthy(Get(params[p], "author_name"))
       /\ Len(log[p]) = 2 /\ log[p][1].ok /\ log[p][2].ok
       /\ api_result[p] = <<Entry("category_ids", Null),
                            Entry("author_ids", Chars(<<"1">>))>>

\* ------------------------------------------------------------------ C28
\* the get_book_details requests of the busy period that just ended: every
\* slot called in it has returned, each was called once, and all of them
\* asked for the book of p
OverlappedGroup(p) ==
    IF /\ ~busy.again /\ p \in busy.calls
       /\ \A r \in Procs : pc[r] \in {"idle", "done"}
       /\ \A r \in busy.calls : IsBookDetails(r) /\ book_id[r] = book_id[p]
    THEN busy.calls ELSE {}
Answered(group) == {r \in group : FetchOk(r)}

\* C28 (as claimed): once several overlapping get_book_details requests for
\* the same book id whose remote responses differ have all returned, with no
\* store failure, the row's (pdf_links, has_pdf) is the pair derived from one
\* of their responses.
C28_RowFromOneResponse ==
    \A p \in Procs :
       LET group == OverlappedGroup(p) IN
       (/\ book_id[p] \in DOMAIN books
        /\ \E q \in Answered(group) : FetchOk(p) /\ fetched[q] # fetched[p]
        /\ \A r \in group : NoStoreFailure(r))
          => \E r \in Answered(group) :
                PdfState(books[book_id[p]]) = ClaimedPdfState(fetched[r].json)

\* ------------------------------------------------------------------ C29
LocalKeys ==
    {"local_book_name", "local_author_name", "local_category_name", "local_pdf_links",
     "local_info_long"}
FoundLocally(item) ==
    HasBookId(item) /\ ObjGet(item, "book_id").v \in DOMAIN books

\* C29: in the response of a search whose batch enrichment completed without
\* store failure, every item has a reference_info and is in one of three
\* shapes: with a book_id that has a row in books, it has the five local_*
\* keys and no local_db_status; with a book_id that has no row, it has
\* local_db_status and no local_* key; without a book_id it has neither.
C29_ThreeShapes ==
    \A p \in Procs :
       CompletedBatch(p) =>
          \A i \in DOMAIN DataOf(api_result[p]) :
             LET item == DataOf(api_result[p])[i]
                 local_keys == LocalKeys \cap Keys(item.v)
                 status == Has(item.v, "local_db_status")
             IN /\ Has(item.v, "reference_info")
                /\ IF FoundLocally(item) THEN local_keys = LocalKeys /\ ~status
                   ELSE IF HasBookId(item) THEN local_keys = {} /\ status
                   ELSE local_keys = {} /\ ~status
\* a completed batch with an item found locally followed by an item whose
\* book_id has no row
C29_Witness ==
    \E p \in Procs :
       /\ CompletedBatch(p)
       /\ Len(DataOf(api_result[p])) = 2
       /\ FoundLocally(DataOf(api_result[p])[1])
       /\ Has(DataOf(api_result[p])[1].v, "local_info_long")
       /\ HasBookId(DataOf(api_result[p])[2])
       /\ ~FoundLocally(DataOf(api_result[p])[2])
       /\ Has(DataOf(api_result[p])[2].v, "local_db_status")

\* ------------------------------------------------------------------ C30
\* the item carries the key with a falsy value other than None
ZeroField(x) == x \in {Num(0), Str("")}
ZeroBookId(item) == Has(item.v, "book_id") /\ ZeroField(ObjGet(item, "book_id"))

\* C30: a value of 0 or "" counts as absent. In a returned search, an item
\* whose book_id is 0 got no local lookup, no local_* key, no local_db_status
\* and no Link part; an item whose meta vol or page is 0 has no Jilid or
\* Halaman part, one whose meta page_id is 0 has the book-level link, one whose
\* meta book_name or author_name is "" takes no name from meta. In
\* get_book_details a book row whose author_id is 0 causes no author read and
\* one whose cat_id is 0 no category read.
C30_ZeroIsAbsent ==
    \A p \in Procs :
       /\ (IsSearch(p) /\ Returned(p) /\ RemoteDataIsList(p)
             /\ ~Has(api_result[p], "error")) =>
             \A i \in DOMAIN DataOf(api_result[p]) :
                LET item == DataOf(api_result[p])[i] IN
                /\ ZeroBookId(item) =>
                      /\ \A j \in DOMAIN log[p] :
                            log[p][j].stmt.params[1] # ObjGet(item, "book_id")
                      /\ Keys(item.v) \cap (LocalKeys \cup {"local_db_status"}) = {}
                /\ Has(item.v, "reference_info") =>
                      /\ ZeroBookId(item) => LinkShown(item) = <<>>
                      /\ ZeroField(MetaField(item, "vol")) =>
                            ShownAfter(item, "Jilid: ") = Null
                      /\ ZeroField(MetaField(item, "page")) =>
                            ShownAfter(item, "Halaman: ") = Null
                      /\ (HasBookId(item) /\ ZeroField(MetaField(item, "page_id"))) =>
                            LinkShown(item) = BookLink(item)
                      /\ ZeroField(MetaField(item, "book_name")) =>
                            ShownAfter(item, "Kitab: ") =
                               TruthyOrNull(ObjGet(item, "local_book_name"))
                      /\ ZeroField(MetaField(item, "author_name")) =>
                            ShownAfter(item, "Penulis: ") =
                               TruthyOrNull(ObjGet(item, "local_author_name"))
       /\ (IsBookDetails(p) /\ BookFound(p)) =>
             /\ ZeroField(book_info[p][2]) =>
                   ~Issued(p, 3) /\ ~Has(api_result[p], "local_author_name")
             /\ ZeroField(book_info[p][3]) =>
                   ~Issued(p, 4) /\ ~Has(api_result[p], "local_category_name")
\* a returned search of two items: the first has book_id 0 and a meta with
\* page_id 99 and got no lookup and no link; the second has book_id 1 and a
\* meta whose vol, page and page_id are 0, and got the book-level link and
\* neither Jilid nor Halaman
C30_Witness ==
    \E p \in Procs :
       /\ IsSearch(p) /\ Returned(p) /\ ~Has(api_result[p], "error")
       /\ Len(DataOf(api_result[p])) = 2
       /\ Len(log[p]) = 1 /\ log[p][1].ok
       /\ LET first == DataOf(api_result[p])[1]
              second == DataOf(api_result[p])[2]
          IN /\ ZeroBookId(first) /\ MetaField(first, "page_id") = Num(99)
             /\ LinkShown(first) = <<>>
             /\ ShownAfter(first, "Jilid: ") = Num(2)
             /\ ObjGet(second, "book_id") = Num(1)
             /\ MetaField(second, "vol") = Num(0)
             /\ MetaField(second, "page_id") = Num(0)
             /\ LinkShown(second) = BookLink(second)
             /\ NonEmptyParts(second) = {1, 3, 6}

====
